---- MODULE Spec2Model ----
(***************************************************************************)
(* A model of the nomai-sdk verification core: the manifest data model,    *)
(* the intent DSL, the verification engine (nomai/verify.py), and the      *)
(* wire formats of intents (nomai/intents.py) and manifests                *)
(* (nomai/manifest.py).                                                    *)
(*                                                                         *)
(* Python values are tagged records (None, numbers, strings, dicts,        *)
(* lists).  Numbers are integers.  Python strings are TLA+ strings, read   *)
(* with Len, SubSeq and \o, so substring tests, prefixes and splits are    *)
(* computed on the characters.  A Python exception is the value            *)
(* Raise(name); a function that can raise returns either its result or     *)
(* that value, and every caller propagates it unless the source catches    *)
(* it.                                                                     *)
(***************************************************************************)
EXTENDS Integers, Sequences, FiniteSets, TLC

VARIABLES
    manifests,     \* the manifest sequence the simulation has emitted
    pc,            \* position of the driving program
    call,          \* arguments of the last verify() call
    report,        \* what the last verify() call returned (or raised)
    regression,    \* the stored RegressionTest
    replayed,      \* what RegressionTest.replay returned (or raised)
    wire           \* the value / wire form / reloaded value of a round trip

vars == <<manifests, pc, call, report, regression, replayed, wire>>

(***************************************************************************)
(* Bounds of the model.                                                    *)
(***************************************************************************)
MaxTicks == 3        \* manifests emitted by the simulation
MaxDelay == 2        \* |delay_ticks| of the After triggers tried
MaxTimeout == 2      \* timeout_ticks tried, besides the default
MaxSuiteLen == 2     \* intents per suite
FirstTick == 1       \* tick of the first manifest
MainTicks == 2       \* manifests emitted before a suite of several intents is verified

(***************************************************************************)
(* Program constants.                                                      *)
(***************************************************************************)
DefaultTimeout == 600
DefaultTolerance == 10    \* the default tolerance 0.1, in hundredths

(***************************************************************************)
(* Python values.                                                          *)
(***************************************************************************)
None == [kind |-> "none"]
Num(n) == [kind |-> "num", n |-> n]
Str(s) == [kind |-> "str", s |-> s]
Dict(f) == [kind |-> "dict", d |-> f]
List(xs) == [kind |-> "list", xs |-> xs]
Bool(b) == [kind |-> "bool", b |-> b]
NoParams == [k \in {} |-> None]

Raise(name) == [raised |-> name]
IsRaised(r) == "raised" \in DOMAIN r

IsNum(v) == v.kind = "num"
IsStr(v) == v.kind = "str"
IsDict(v) == v.kind = "dict"
IsList(v) == v.kind = "list"

\* dict.get(key, default)
Get(d, key, default) == IF key \in DOMAIN d THEN d[key] ELSE default

Min(S) == CHOOSE x \in S : \A y \in S : x <= y
Abs(x) == IF x < 0 THEN -x ELSE x
PyMin(a, b) == IF a <= b THEN a ELSE b

(***************************************************************************)
(* Python strings.                                                         *)
(***************************************************************************)
UpperAlpha == "ABCDEFGHIJKLMNOPQRSTUVWXYZ"
LowerAlpha == "abcdefghijklmnopqrstuvwxyz"
Digits == "0123456789"

Char(s, i) == SubSeq(s, i, i)
Slice(s, i, j) == IF j < i THEN "" ELSE SubSeq(s, i, j)

\* str.lower() on one character
LowerChar(c) ==
    IF \E i \in 1..Len(UpperAlpha) : Char(UpperAlpha, i) = c
    THEN Char(LowerAlpha, CHOOSE i \in 1..Len(UpperAlpha) : Char(UpperAlpha, i) = c)
    ELSE c

\* str.lower(), one half of the string after the other
RECURSIVE Lower(_)
Lower(s) ==
    IF Len(s) = 0 THEN ""
    ELSE IF Len(s) = 1 THEN LowerChar(s)
    ELSE Lower(Slice(s, 1, Len(s) \div 2)) \o Lower(Slice(s, Len(s) \div 2 + 1, Len(s)))

\* sub in s
Contains(sub, s) ==
    \E i \in 1..(Len(s) - Len(sub) + 1) : Slice(s, i, i + Len(sub) - 1) = sub

StartsWith(s, p) == Len(p) <= Len(s) /\ Slice(s, 1, Len(p)) = p
EndsWith(s, p) == Len(p) <= Len(s) /\ Slice(s, Len(s) - Len(p) + 1, Len(s)) = p

\* s.split(sep)
RECURSIVE SplitOn(_, _)
SplitOn(s, sep) ==
    LET hits == {i \in 1..(Len(s) - Len(sep) + 1) : Slice(s, i, i + Len(sep) - 1) = sep}
    IN IF hits = {} THEN <<s>>
       ELSE <<Slice(s, 1, Min(hits) - 1)>>
            \o SplitOn(Slice(s, Min(hits) + Len(sep), Len(s)), sep)

\* s.split(): split on runs of whitespace, no empty pieces
SplitWs(s) == SelectSeq(SplitOn(s, " "), LAMBDA p : p # "")

\* s.strip()
RECURSIVE Strip(_)
Strip(s) ==
    IF Len(s) = 0 THEN s
    ELSE IF Char(s, 1) = " " THEN Strip(Slice(s, 2, Len(s)))
    ELSE IF Char(s, Len(s)) = " " THEN Strip(Slice(s, 1, Len(s) - 1))
    ELSE s

IsDigit(c) == \E i \in 1..Len(Digits) : Char(Digits, i) = c
DigitVal(c) == (CHOOSE i \in 1..Len(Digits) : Char(Digits, i) = c) - 1
AllDigits(s) == Len(s) > 0 /\ \A i \in 1..Len(s) : IsDigit(Char(s, i))

RECURSIVE DigitsVal(_)
DigitsVal(s) ==
    IF Len(s) = 0 THEN 0
    ELSE 10 * DigitsVal(Slice(s, 1, Len(s) - 1)) + DigitVal(Char(s, Len(s)))

\* The numerals float() and int() accept, among those the model feeds them:
\* an optional sign and decimal digits.  Anything else is a ValueError.
IsNumeral(s) ==
    \/ AllDigits(s)
    \/ Len(s) > 1 /\ Char(s, 1) \in {"-", "+"} /\ AllDigits(Slice(s, 2, Len(s)))

NumeralVal(s) ==
    IF Char(s, 1) = "-" THEN -DigitsVal(Slice(s, 2, Len(s)))
    ELSE IF Char(s, 1) = "+" THEN DigitsVal(Slice(s, 2, Len(s)))
    ELSE DigitsVal(s)

\* str(v) of a Python value
PyStr(v) ==
    CASE v.kind = "str" -> v.s
      [] v.kind = "num" -> ToString(v.n)
      [] v.kind = "bool" -> (IF v.b THEN "True" ELSE "False")
      [] OTHER -> "None"

\* seq[i] with Python's index rules: 0-based, negative indices count from
\* the end, anything else raises IndexError.
PyIndexOk(seq, i) == -Len(seq) <= i /\ i < Len(seq)
PyIndex(seq, i) == IF i >= 0 THEN seq[i + 1] ELSE seq[Len(seq) + i + 1]

(***************************************************************************)
(* Manifest data model (nomai/manifest.py).  Only the fields the verifier  *)
(* reads, plus the fields the wire format carries for a ComponentChange.   *)
(***************************************************************************)
ComponentChange(eid, comp, old, new, rtype, rdetail, t) ==
    [entity_id |-> eid, component_type_name |-> comp, old_value |-> old,
     new_value |-> new, changed_by_system |-> 1, reason_type |-> rtype,
     reason_detail |-> rdetail, command_index |-> 0, tick |-> t]

GameEvent(etype, desc, involved, rtype, rdetail, t) ==
    [event_type |-> etype, description |-> desc, involved_entities |-> involved,
     caused_by_system |-> 1, reason_type |-> rtype, reason_detail |-> rdetail,
     tick |-> t]

Aggregates(by_type, total) ==
    [entity_count_by_type |-> by_type, total_entity_count |-> total]

TickManifest(t, despawns, changes, events, agg) ==
    [tick |-> t, entity_despawns |-> despawns, component_changes |-> changes,
     events |-> events, aggregates |-> agg]

(***************************************************************************)
(* Intent DSL (nomai/intents.py): triggers, expected outcomes, intents.    *)
(***************************************************************************)
Trigger(type, params, children) ==
    [type |-> type, params |-> params, children |-> children]

collision(entity_a, entity_b) ==
    Trigger("collision", [entity_a |-> Str(entity_a), entity_b |-> Str(entity_b)], <<>>)

state_transition(entity, from_state, to_state) ==
    Trigger("state_transition",
            [entity |-> Str(entity), from_state |-> Str(from_state),
             to_state |-> Str(to_state)], <<>>)

aggregate_condition(entity_type, comparison, value) ==
    Trigger("aggregate_condition",
            [entity_type |-> Str(entity_type), comparison |-> Str(comparison),
             value |-> Num(value)], <<>>)

component_condition(entity, component, field_name, comparison, value) ==
    Trigger("component_condition",
            [entity |-> Str(entity), component |-> Str(component),
             field |-> Str(field_name), comparison |-> Str(comparison),
             value |-> value], <<>>)

\* involving is None or a List of names
event_occurred(event_type, involving) ==
    Trigger("event_occurred",
            IF involving = None THEN [event_type |-> Str(event_type)]
            ELSE [event_type |-> Str(event_type), involving |-> involving], <<>>)

tick_reached(tick) == Trigger("tick_reached", [tick |-> Num(tick)], <<>>)

and_(triggers) == Trigger("and", NoParams, triggers)
or_(triggers) == Trigger("or", NoParams, triggers)

after(trigger, delay_ticks) ==
    Trigger("after", [delay_ticks |-> Num(delay_ticks)], <<trigger>>)

Expected(type, params, children) ==
    [type |-> type, params |-> params, children |-> children]

\* field_name and expected_value are None when not given
component_changed(entity, component, field_name, expected_value) ==
    Expected("component_changed",
             [k \in {"entity", "component"}
                    \cup (IF field_name = None THEN {} ELSE {"field"})
                    \cup (IF expected_value = None THEN {} ELSE {"expected_value"})
              |-> CASE k = "entity" -> Str(entity)
                    [] k = "component" -> Str(component)
                    [] k = "field" -> field_name
                    [] OTHER -> expected_value],
             <<>>)

entity_despawned(entity) == Expected("entity_despawned", [entity |-> Str(entity)], <<>>)

aggregate_changed(entity_type, comparison, value) ==
    Expected("aggregate_changed",
             [entity_type |-> Str(entity_type), comparison |-> Str(comparison),
              value |-> Num(value)], <<>>)

in_state(entity, component, state) ==
    Expected("in_state",
             [entity |-> Str(entity), component |-> Str(component),
              state |-> Str(state)], <<>>)

event_emitted(event_type, involving) ==
    Expected("event_emitted",
             IF involving = None THEN [event_type |-> Str(event_type)]
             ELSE [event_type |-> Str(event_type), involving |-> involving], <<>>)

\* tolerance is counted in hundredths (0.1 is 10)
value_relation(entity, component, field_name, relation, tolerance) ==
    Expected("value_relation",
             [entity |-> Str(entity), component |-> Str(component),
              field |-> Str(field_name), relation |-> Str(relation),
              tolerance |-> Num(tolerance)], <<>>)

all_(expectations) == Expected("all", NoParams, expectations)
any_(expectations) == Expected("any", NoParams, expectations)

\* IntentSpec(name, kind, description) with every other field at its default
IntentSpec(name, kind) ==
    [name |-> name, kind |-> kind, description |-> "d",
     entity_type |-> None, entity_role |-> None, must_exist |-> TRUE,
     must_be_visible |-> TRUE, required_components |-> <<>>,
     trigger |-> None, expected |-> None, timeout_ticks |-> DefaultTimeout,
     metric_entity |-> None, metric_component |-> None, metric_field |-> None,
     metric_range |-> None, condition |-> None]

BehaviorIntent(name, trigger, expected, timeout) ==
    [IntentSpec(name, "behavior") EXCEPT
        !.trigger = trigger, !.expected = expected, !.timeout_ticks = timeout]

InvariantIntent(name, condition) ==
    [IntentSpec(name, "invariant") EXCEPT !.condition = Str(condition)]

EntityIntent(name, role, type) ==
    [IntentSpec(name, "entity") EXCEPT !.entity_role = role, !.entity_type = type]

MetricIntent(name, entity, component, field_name, range) ==
    [IntentSpec(name, "metric") EXCEPT
        !.metric_entity = Str(entity), !.metric_component = Str(component),
        !.metric_field = Str(field_name), !.metric_range = range]

VerificationSuite(name, intents) ==
    [name |-> name, description |-> "d", intents |-> intents]

(***************************************************************************)
(* IntentResult (nomai/verify.py).                                         *)
(***************************************************************************)
IntentResult(name, passed, failure_reason, trigger_tick, evidence, suggestion) ==
    [intent_name |-> name, passed |-> passed, failure_reason |-> failure_reason,
     trigger_tick |-> trigger_tick, evidence |-> evidence, suggestion |-> suggestion]

Passed(name, trigger_tick, evidence) ==
    IntentResult(name, TRUE, "", trigger_tick, evidence, "")

Failed(name, reason, trigger_tick, evidence, suggestion) ==
    IntentResult(name, FALSE, reason, trigger_tick, evidence, suggestion)

(***************************************************************************)
(* Comparison helpers.                                                     *)
(***************************************************************************)
compare(actual, op, expected) ==
    CASE op = "==" -> actual = expected
      [] op = "!=" -> actual # expected
      [] op = "<" -> actual < expected
      [] op = "<=" -> actual <= expected
      [] op = ">" -> actual > expected
      [] op = ">=" -> actual >= expected
      [] OTHER -> FALSE

compare_str(actual, op, expected) ==
    CASE op = "==" -> actual = expected
      [] op = "!=" -> actual # expected
      [] OTHER -> FALSE

\* a matcher that rejects a change it has no evidence about
matches_entity_strict(change, entity_name) ==
    IF IsNumeral(entity_name) THEN change.entity_id = NumeralVal(entity_name)
    ELSE Contains(Lower(entity_name), Lower(change.reason_detail))

matches_entity(change, entity_name) ==
    IF IsNumeral(entity_name) THEN change.entity_id = NumeralVal(entity_name)
    ELSE IF Contains(Lower(entity_name), Lower(change.reason_detail)) THEN TRUE
    ELSE IF Contains(":", Lower(change.reason_detail)) THEN FALSE
    ELSE TRUE

extract_field_value(value, field_name) ==
    IF field_name = "" THEN value
    ELSE IF IsDict(value) THEN Get(value.d, field_name, None)
    ELSE None

\* Python truthiness of an optional string parameter
Truthy(v) == v # None /\ ~(IsStr(v) /\ v.s = "")

(***************************************************************************)
(* Trigger evaluation on one manifest (VerificationEngine._check_trigger). *)
(***************************************************************************)
\* a Collision test that is content with one of the two names
CollisionBy_either_name(event, entity_a, entity_b) ==
    /\ event.event_type = "collision"
    /\ \/ Contains(Lower(entity_a), Lower(event.reason_detail))
       \/ Contains(Lower(entity_b), Lower(event.reason_detail))

\* the Collision test of one event
CollisionBy(event, entity_a, entity_b) ==
    /\ event.event_type = "collision"
    /\ Contains(Lower(entity_a), Lower(event.reason_detail))
    /\ Contains(Lower(entity_b), Lower(event.reason_detail))

\* a trigger evaluator that looks through an After at its child
RECURSIVE check_trigger_entering_after(_, _)
check_trigger_entering_after(trigger, manifest) ==
    CASE trigger.type = "after" ->
            /\ Len(trigger.children) > 0
            /\ check_trigger_entering_after(trigger.children[1], manifest)
      [] trigger.type = "and" ->
            \A i \in 1..Len(trigger.children) :
               check_trigger_entering_after(trigger.children[i], manifest)
      [] trigger.type = "or" ->
            \E i \in 1..Len(trigger.children) :
               check_trigger_entering_after(trigger.children[i], manifest)
      [] trigger.type = "tick_reached" -> manifest.tick >= trigger.params.tick.n
      [] trigger.type = "collision" ->
            \E i \in 1..Len(manifest.events) :
               CollisionBy(manifest.events[i], PyStr(trigger.params.entity_a),
                           PyStr(trigger.params.entity_b))
      [] OTHER -> FALSE

\* a trigger evaluator whose And and Or need a child to decide
RECURSIVE check_trigger_needing_children(_, _)
check_trigger_needing_children(trigger, manifest) ==
    CASE trigger.type = "and" ->
            /\ Len(trigger.children) > 0
            /\ \A i \in 1..Len(trigger.children) :
                  check_trigger_needing_children(trigger.children[i], manifest)
      [] trigger.type = "or" ->
            \/ Len(trigger.children) = 0
            \/ \E i \in 1..Len(trigger.children) :
                  check_trigger_needing_children(trigger.children[i], manifest)
      [] trigger.type = "tick_reached" -> manifest.tick >= trigger.params.tick.n
      [] trigger.type = "collision" ->
            \E i \in 1..Len(manifest.events) :
               CollisionBy(manifest.events[i], PyStr(trigger.params.entity_a),
                           PyStr(trigger.params.entity_b))
      [] OTHER -> FALSE

RECURSIVE check_trigger(_, _)
check_trigger(trigger, manifest) ==
    LET p == trigger.params
        changes == manifest.component_changes
        events == manifest.events
    IN
    CASE trigger.type = "tick_reached" ->
            LET target_tick == Get(p, "tick", Num(0))
            IN IF IsNum(target_tick) THEN manifest.tick >= target_tick.n ELSE FALSE
      [] trigger.type = "event_occurred" ->
            LET event_type == PyStr(Get(p, "event_type", Str("")))
                involving == Get(p, "involving", None)
            IN \E i \in 1..Len(events) :
                  /\ events[i].event_type = event_type
                  /\ \/ involving = None
                     \/ /\ IsList(involving)
                        /\ LET search_text == Lower(events[i].reason_detail) \o " "
                                              \o Lower(events[i].description)
                           IN \A k \in 1..Len(involving.xs) :
                                 Contains(Lower(involving.xs[k]), search_text)
      [] trigger.type = "component_condition" ->
            LET component == PyStr(Get(p, "component", Str("")))
                field_name == PyStr(Get(p, "field", Str("")))
                op == PyStr(Get(p, "comparison", Str("")))
                expected_value == Get(p, "value", None)
            IN \E i \in 1..Len(changes) :
                  /\ changes[i].component_type_name = component
                  /\ LET value == extract_field_value(changes[i].new_value, field_name)
                     IN /\ value # None
                        /\ \/ IsNum(value) /\ IsNum(expected_value)
                              /\ compare(value.n, op, expected_value.n)
                           \/ IsStr(value) /\ IsStr(expected_value)
                              /\ compare_str(value.s, op, expected_value.s)
      [] trigger.type = "aggregate_condition" ->
            LET entity_type == PyStr(Get(p, "entity_type", Str("")))
                op == PyStr(Get(p, "comparison", Str("")))
                target == Get(p, "value", Num(0))
            IN IF ~IsNum(target) THEN FALSE
               ELSE compare(Get(manifest.aggregates.entity_count_by_type, entity_type, 0),
                            op, target.n)
      [] trigger.type = "collision" ->
            LET entity_a == PyStr(Get(p, "entity_a", Str("")))
                entity_b == PyStr(Get(p, "entity_b", Str("")))
            IN \E i \in 1..Len(events) : CollisionBy(events[i], entity_a, entity_b)
      [] trigger.type = "and" ->
            \A i \in 1..Len(trigger.children) : check_trigger(trigger.children[i], manifest)
      [] trigger.type = "or" ->
            \E i \in 1..Len(trigger.children) : check_trigger(trigger.children[i], manifest)
      [] trigger.type = "state_transition" ->
            LET entity_name == PyStr(Get(p, "entity", Str("")))
                from_state == PyStr(Get(p, "from_state", Str("")))
                to_state == PyStr(Get(p, "to_state", Str("")))
            IN \E i \in 1..Len(changes) :
                  /\ changes[i].old_value = Str(from_state)
                  /\ changes[i].new_value = Str(to_state)
                  /\ Contains(Lower(entity_name), Lower(changes[i].reason_detail))
      [] trigger.type = "after" -> FALSE
      [] OTHER -> FALSE

(***************************************************************************)
(* Expected-outcome evaluation on one manifest                             *)
(* (VerificationEngine._check_expected).                                   *)
(***************************************************************************)
\* a ComponentChanged test that accepts a change whose field kept its value
ComponentChangedBy_without_delta(change, component, field_name, expected_value, entity_name) ==
    /\ change.component_type_name = component
    /\ ~(Truthy(entity_name) /\ ~matches_entity(change, PyStr(entity_name)))
    /\ IF field_name # None
       THEN LET new_val == extract_field_value(change.new_value, PyStr(field_name))
            IN /\ new_val # None
               /\ ~(expected_value # None /\ new_val # expected_value)
       ELSE IF expected_value # None
       THEN change.new_value = expected_value
       ELSE ~(change.old_value # None /\ change.old_value = change.new_value)

\* the ComponentChanged test of one change
ComponentChangedBy(change, component, field_name, expected_value, entity_name) ==
    /\ change.component_type_name = component
    /\ ~(Truthy(entity_name) /\ ~matches_entity(change, PyStr(entity_name)))
    /\ IF field_name # None
       THEN LET new_val == extract_field_value(change.new_value, PyStr(field_name))
                old_val == extract_field_value(change.old_value, PyStr(field_name))
            IN /\ new_val # None
               /\ ~(old_val # None /\ old_val = new_val)
               /\ ~(expected_value # None /\ new_val # expected_value)
       ELSE IF expected_value # None
       THEN change.new_value = expected_value
       ELSE ~(change.old_value # None /\ change.old_value = change.new_value)

\* an EntityDespawned test that is content with any despawn
EntityDespawnedIn_any_despawn(manifest, entity_name) == Len(manifest.entity_despawns) > 0

\* the EntityDespawned test of one manifest
EntityDespawnedIn(manifest, entity_name) ==
    LET despawns == manifest.entity_despawns
        despawn_set == {despawns[i] : i \in 1..Len(despawns)}
        events == manifest.events
        changes == manifest.component_changes
        name == Lower(entity_name)
    IN /\ Len(despawns) > 0
       /\ \/ \E i \in 1..Len(events) :
                /\ Contains(name, Lower(events[i].description \o " "
                                        \o events[i].reason_detail))
                /\ \E k \in 1..Len(events[i].involved_entities) :
                      events[i].involved_entities[k] \in despawn_set
          \/ \E i \in 1..Len(changes) :
                /\ changes[i].entity_id \in despawn_set
                /\ \/ /\ changes[i].component_type_name = "identity"
                      /\ IsDict(changes[i].new_value)
                      /\ name \in
                           {Lower(PyStr(Get(changes[i].new_value.d, "role", Str("")))),
                            Lower(PyStr(Get(changes[i].new_value.d, "entity_type", Str(""))))}
                   \/ Contains(name, Lower(changes[i].reason_detail))
          \/ \E i \in 1..Len(despawns) : ToString(despawns[i]) = entity_name

\* a ValueRelation test whose magnitude_preserved compares the signed values
ValueRelationBy_signed(change, component, field_name, relation, tolerance, entity_name) ==
    /\ change.component_type_name = component
    /\ ~(Truthy(entity_name) /\ ~matches_entity(change, PyStr(entity_name)))
    /\ LET old_val == extract_field_value(change.old_value, field_name)
           new_val == extract_field_value(change.new_value, field_name)
       IN /\ old_val # None /\ new_val # None
          /\ IsNum(old_val) /\ IsNum(new_val)
          /\ CASE relation = "sign_flipped" -> old_val.n * new_val.n < 0
               [] relation = "magnitude_preserved" ->
                     /\ Abs(old_val.n) > 0
                     /\ Abs(new_val.n - old_val.n) * 100 <= tolerance * Abs(old_val.n)
               [] relation = "increased" -> new_val.n > old_val.n
               [] relation = "decreased" -> new_val.n < old_val.n
               [] relation = "changed_by_more_than" ->
                     Abs(new_val.n - old_val.n) * 100 > tolerance
               [] OTHER -> FALSE

\* the ValueRelation test of one change; tolerance in hundredths
ValueRelationBy(change, component, field_name, relation, tolerance, entity_name) ==
    /\ change.component_type_name = component
    /\ ~(Truthy(entity_name) /\ ~matches_entity(change, PyStr(entity_name)))
    /\ LET old_val == extract_field_value(change.old_value, field_name)
           new_val == extract_field_value(change.new_value, field_name)
       IN /\ old_val # None /\ new_val # None
          /\ IsNum(old_val) /\ IsNum(new_val)
          /\ LET old_f == old_val.n
                 new_f == new_val.n
             IN CASE relation = "sign_flipped" -> old_f * new_f < 0
                  [] relation = "magnitude_preserved" ->
                        /\ Abs(old_f) > 0
                        /\ Abs(Abs(new_f) - Abs(old_f)) * 100 <= tolerance * Abs(old_f)
                  [] relation = "increased" -> new_f > old_f
                  [] relation = "decreased" -> new_f < old_f
                  [] relation = "changed_by_more_than" ->
                        Abs(new_f - old_f) * 100 > tolerance
                  [] OTHER -> FALSE

RECURSIVE check_expected(_, _)
check_expected(expected, manifest) ==
    LET p == expected.params
        changes == manifest.component_changes
        events == manifest.events
    IN
    CASE expected.type = "component_changed" ->
            \E i \in 1..Len(changes) :
               ComponentChangedBy(changes[i], PyStr(Get(p, "component", Str(""))),
                                  Get(p, "field", None), Get(p, "expected_value", None),
                                  Get(p, "entity", None))
      [] expected.type = "entity_despawned" ->
            EntityDespawnedIn(manifest, PyStr(Get(p, "entity", Str(""))))
      [] expected.type = "event_emitted" ->
            \E i \in 1..Len(events) :
               events[i].event_type = PyStr(Get(p, "event_type", Str("")))
      [] expected.type = "aggregate_changed" ->
            LET entity_type == PyStr(Get(p, "entity_type", Str("")))
                op == PyStr(Get(p, "comparison", Str("")))
                target == Get(p, "value", Num(0))
            IN IF ~IsNum(target) THEN FALSE
               ELSE compare(Get(manifest.aggregates.entity_count_by_type, entity_type, 0),
                            op, target.n)
      [] expected.type = "in_state" ->
            \E i \in 1..Len(changes) :
               /\ changes[i].component_type_name = PyStr(Get(p, "component", Str("")))
               /\ changes[i].new_value = Str(PyStr(Get(p, "state", Str(""))))
      [] expected.type = "value_relation" ->
            \E i \in 1..Len(changes) :
               ValueRelationBy(changes[i], PyStr(Get(p, "component", Str(""))),
                               PyStr(Get(p, "field", Str(""))),
                               PyStr(Get(p, "relation", Str(""))),
                               Get(p, "tolerance", Num(DefaultTolerance)).n,
                               Get(p, "entity", None))
      [] expected.type = "all" ->
            \A i \in 1..Len(expected.children) : check_expected(expected.children[i], manifest)
      [] expected.type = "any" ->
            \E i \in 1..Len(expected.children) : check_expected(expected.children[i], manifest)
      [] OTHER -> FALSE

(***************************************************************************)
(* Behavior verification (VerificationEngine._verify_behavior and          *)
(* _resolve_after_trigger).  Manifest indices are Python's, from 0.        *)
(***************************************************************************)
\* the indices at which a trigger fires, and the first of them
FiringIndices(trigger, ms) == {i \in 0..(Len(ms) - 1) : check_trigger(trigger, ms[i + 1])}

\* an After resolution that lands one manifest late
resolve_after_trigger_late(trigger, ms) ==
    LET fired == FiringIndices(trigger.children[1], ms)
        resolved_idx == Min(fired) + trigger.params.delay_ticks.n + 1
    IN IF fired = {} \/ resolved_idx >= Len(ms)
       THEN [ok |-> FALSE, idx |-> 0, reason |-> "late"]
       ELSE [ok |-> TRUE, idx |-> resolved_idx, reason |-> ""]

\* (resolved_index, failure_reason); ok = FALSE stands for resolved_index None
resolve_after_trigger(trigger, ms) ==
    IF trigger.type # "after" \/ Len(trigger.children) = 0
    THEN [ok |-> FALSE, idx |-> 0, reason |-> "trigger is not AFTER or has no children"]
    ELSE LET child == trigger.children[1]
             raw_delay == Get(trigger.params, "delay_ticks", Num(0))
             delay == IF raw_delay # None THEN raw_delay.n ELSE 0
             fired == FiringIndices(child, ms)
         IN IF fired = {}
            THEN [ok |-> FALSE, idx |-> 0, reason |-> "child trigger never fired"]
            ELSE LET child_idx == Min(fired)
                     resolved_idx == child_idx + delay
                 IN IF resolved_idx >= Len(ms)
                    THEN [ok |-> FALSE, idx |-> 0,
                          reason |-> "child trigger fired at tick index "
                                     \o ToString(child_idx) \o " but delay of "
                                     \o ToString(delay)
                                     \o " ticks exceeds available manifests (need index "
                                     \o ToString(resolved_idx) \o ", have "
                                     \o ToString(Len(ms)) \o ")"]
                    ELSE [ok |-> TRUE, idx |-> resolved_idx, reason |-> ""]

\* a Phase 2 whose window opens one manifest after the trigger
ExpectedPhaseSkippingTriggerTick(intent, ms, trigger_tick_idx) ==
    IF ~PyIndexOk(ms, trigger_tick_idx) THEN Raise("IndexError")
    ELSE
    LET trigger_tick == PyIndex(ms, trigger_tick_idx).tick
        end_idx == PyMin(trigger_tick_idx + intent.timeout_ticks, Len(ms))
        met == {idx \in (trigger_tick_idx + 1)..(end_idx - 1) :
                  check_expected(intent.expected, PyIndex(ms, idx))}
    IN IF met # {}
       THEN Passed(intent.name, Num(trigger_tick), PyIndex(ms, Min(met)).component_changes)
       ELSE Failed(intent.name, "not met", Num(trigger_tick), <<>>, "")

\* a Phase 2 that re-arms: every later firing of the trigger opens a window
\* of its own
ExpectedPhaseRearming(intent, ms, trigger_tick_idx) ==
    IF trigger_tick_idx < 0 \/ ~PyIndexOk(ms, trigger_tick_idx) THEN Raise("IndexError")
    ELSE
    LET armed == {i \in trigger_tick_idx..(Len(ms) - 1) :
                    i = trigger_tick_idx \/ check_trigger(intent.trigger, ms[i + 1])}
        met == {i \in armed :
                  \E idx \in i..(PyMin(i + intent.timeout_ticks, Len(ms)) - 1) :
                     check_expected(intent.expected, ms[idx + 1])}
    IN IF met # {}
       THEN Passed(intent.name, Num(ms[Min(met) + 1].tick), <<>>)
       ELSE Failed(intent.name, "not met", Num(ms[trigger_tick_idx + 1].tick), <<>>, "")

\* Phase 2 of _verify_behavior, from the resolved trigger index on
ExpectedPhase(intent, ms, trigger_tick_idx) ==
    IF ~PyIndexOk(ms, trigger_tick_idx) THEN Raise("IndexError")
    ELSE
    LET trigger_tick == PyIndex(ms, trigger_tick_idx).tick
        timeout == intent.timeout_ticks
        end_idx == PyMin(trigger_tick_idx + timeout, Len(ms))
        met == {idx \in trigger_tick_idx..(end_idx - 1) :
                  check_expected(intent.expected, PyIndex(ms, idx))}
    IN IF met # {}
       THEN Passed(intent.name, Num(trigger_tick),
                   PyIndex(ms, Min(met)).component_changes)
       ELSE Failed(intent.name,
                   "Expected outcome '" \o intent.expected.type \o "' not met within "
                   \o ToString(timeout) \o " ticks after trigger at tick "
                   \o ToString(trigger_tick),
                   Num(trigger_tick), <<>>,
                   "The trigger fired but the expected outcome was not observed. "
                   \o "Check the gameplay logic that should respond to the trigger event.")

verify_behavior(intent, ms) ==
    IF intent.trigger = None
    THEN Failed(intent.name, "Behavior intent has no trigger defined", None, <<>>,
                "Define a trigger for this behavior intent.")
    ELSE IF intent.expected = None
    THEN Failed(intent.name, "Behavior intent has no expected outcome defined", None, <<>>,
                "Define an expected outcome for this behavior intent.")
    ELSE IF intent.trigger.type = "after"
    THEN LET r == resolve_after_trigger(intent.trigger, ms)
         IN IF ~r.ok
            THEN Failed(intent.name, "After trigger failed: " \o r.reason, None, <<>>,
                        "Ensure the child trigger condition occurs during simulation "
                        \o "and the delay does not exceed the simulation length.")
            ELSE ExpectedPhase(intent, ms, r.idx)
    ELSE LET fired == FiringIndices(intent.trigger, ms)
         IN IF fired = {}
            THEN Failed(intent.name,
                        "Trigger '" \o intent.trigger.type \o "' never fired across "
                        \o ToString(Len(ms)) \o " ticks", None, <<>>,
                        "Ensure the game state produces the trigger condition. "
                        \o "Check that the relevant entities exist and interact correctly.")
            ELSE ExpectedPhase(intent, ms, Min(fired))

(***************************************************************************)
(* Scans over every change of every manifest, shared by the entity,        *)
(* metric and component_range evaluators: the first change, in (manifest,  *)
(* change) order, at which the scan stops.                                 *)
(***************************************************************************)
\* the (manifest, change) positions of a manifest sequence
Positions(ms) ==
    UNION {{<<i, k>> : k \in 1..Len(ms[i].component_changes)} : i \in 1..Len(ms)}

FirstPos(S) ==
    CHOOSE pos \in S : \A q \in S : pos[1] < q[1] \/ (pos[1] = q[1] /\ pos[2] <= q[2])

ChangeAt(ms, pos) == ms[pos[1]].component_changes[pos[2]]

Range(lo, hi) == [kind |-> "tuple", lo |-> lo, hi |-> hi]
OptStr(v) == IF Truthy(v) THEN v.s ELSE ""

(***************************************************************************)
(* Entity verification (VerificationEngine._verify_entity).  entity_index  *)
(* maps a role to its metadata dict.                                       *)
(***************************************************************************)
\* an entity evaluator that scans the manifests when the indexed type differs
verify_entity_with_fallback(intent, ms, entity_index) ==
    LET role == IF Truthy(intent.entity_role) THEN intent.entity_role.s ELSE ""
        spawned == \E pos \in Positions(ms) :
                      /\ ChangeAt(ms, pos).component_type_name = "identity"
                      /\ IsDict(ChangeAt(ms, pos).new_value)
                      /\ Get(ChangeAt(ms, pos).new_value.d, "role", None) = Str(role)
    IN IF role \in DOMAIN entity_index /\ ~spawned
       THEN IF intent.entity_type # None
               /\ Get(entity_index[role], "entity_type", "") \notin {"", intent.entity_type.s}
            THEN Failed(intent.name, "type does not match expected", None, <<>>, "")
            ELSE Passed(intent.name, None, <<>>)
       ELSE IF role \in DOMAIN entity_index \/ spawned
       THEN Passed(intent.name, None, <<>>)
       ELSE Failed(intent.name, "No entity found with role '" \o role \o "'", None, <<>>, "")

verify_entity(intent, ms, entity_index) ==
    LET role == IF Truthy(intent.entity_role) THEN intent.entity_role.s ELSE ""
        \* the identity changes carrying the role
        found == {pos \in Positions(ms) :
                    /\ ChangeAt(ms, pos).component_type_name = "identity"
                    /\ IsDict(ChangeAt(ms, pos).new_value)
                    /\ Get(ChangeAt(ms, pos).new_value.d, "role", None) = Str(role)}
    IN IF role \in DOMAIN entity_index
       THEN LET idx_type == Get(entity_index[role], "entity_type", "")
            IN IF intent.entity_type # None /\ idx_type # ""
                  /\ idx_type # intent.entity_type.s
               THEN Failed(intent.name,
                           "Entity with role '" \o role \o "' found but type '" \o idx_type
                           \o "' does not match expected '" \o intent.entity_type.s \o "'",
                           None, <<>>,
                           "Change the entity type for '" \o role \o "' from '" \o idx_type
                           \o "' to '" \o intent.entity_type.s \o "'.")
               ELSE Passed(intent.name, None, <<>>)
       ELSE IF found # {}
       THEN Passed(intent.name, None, <<ChangeAt(ms, FirstPos(found))>>)
       ELSE Failed(intent.name, "No entity found with role '" \o role \o "'", None, <<>>,
                   "Add a spawn command for an entity with role '" \o role \o "' and type '"
                   \o (IF Truthy(intent.entity_type) THEN intent.entity_type.s ELSE "unknown")
                   \o "' to the gameplay module.")

(***************************************************************************)
(* Metric verification (VerificationEngine._verify_metric).                *)
(***************************************************************************)
\* a metric evaluator that inspects only the changes of metric_entity
verify_metric_of_entity(intent, ms) ==
    IF intent.metric_range = None
    THEN Failed(intent.name, "Metric intent has no metric_range defined", None, <<>>, "")
    ELSE
    LET bad == {pos \in Positions(ms) :
                  /\ ChangeAt(ms, pos).component_type_name = OptStr(intent.metric_component)
                  /\ matches_entity(ChangeAt(ms, pos), OptStr(intent.metric_entity))
                  /\ LET value == extract_field_value(ChangeAt(ms, pos).new_value,
                                                      OptStr(intent.metric_field))
                     IN /\ value # None
                        /\ IsNum(value)
                        /\ (value.n < intent.metric_range.lo
                            \/ value.n > intent.metric_range.hi)}
    IN IF bad = {} THEN Passed(intent.name, None, <<>>)
       ELSE Failed(intent.name, "out of range", Num(ms[FirstPos(bad)[1]].tick),
                   <<ChangeAt(ms, FirstPos(bad))>>, "")

\* a metric evaluator whose bounds are exclusive
verify_metric_exclusive(intent, ms) ==
    IF intent.metric_range = None
    THEN Failed(intent.name, "Metric intent has no metric_range defined", None, <<>>, "")
    ELSE
    LET range_min == intent.metric_range.lo
        range_max == intent.metric_range.hi
        entity_name == OptStr(intent.metric_entity)
        component == OptStr(intent.metric_component)
        field_name == OptStr(intent.metric_field)
        bad == {pos \in Positions(ms) :
                  /\ ChangeAt(ms, pos).component_type_name = component
                  /\ LET value == extract_field_value(ChangeAt(ms, pos).new_value, field_name)
                     IN /\ value # None
                        /\ IsNum(value)
                        /\ (value.n <= range_min \/ value.n >= range_max)}
    IN IF bad = {} THEN Passed(intent.name, None, <<>>)
       ELSE LET pos == FirstPos(bad)
                value == extract_field_value(ChangeAt(ms, pos).new_value, field_name)
                tick == ms[pos[1]].tick
            IN Failed(intent.name,
                      "Metric '" \o field_name \o "' on '" \o entity_name \o "." \o component
                      \o "' value " \o ToString(value.n) \o " out of range ["
                      \o ToString(range_min) \o ", " \o ToString(range_max) \o "] at tick "
                      \o ToString(tick),
                      Num(tick), <<ChangeAt(ms, pos)>>,
                      "Clamp or limit the '" \o field_name \o "' value of '" \o component
                      \o "' to stay within [" \o ToString(range_min) \o ", "
                      \o ToString(range_max) \o "].")

verify_metric(intent, ms) ==
    IF intent.metric_range = None
    THEN Failed(intent.name, "Metric intent has no metric_range defined", None, <<>>, "")
    ELSE
    LET range_min == intent.metric_range.lo
        range_max == intent.metric_range.hi
        entity_name == OptStr(intent.metric_entity)
        component == OptStr(intent.metric_component)
        field_name == OptStr(intent.metric_field)
        bad == {pos \in Positions(ms) :
                  /\ ChangeAt(ms, pos).component_type_name = component
                  /\ LET value == extract_field_value(ChangeAt(ms, pos).new_value, field_name)
                     IN /\ value # None
                        /\ IsNum(value)
                        /\ (value.n < range_min \/ value.n > range_max)}
    IN IF bad = {} THEN Passed(intent.name, None, <<>>)
       ELSE LET pos == FirstPos(bad)
                value == extract_field_value(ChangeAt(ms, pos).new_value, field_name)
                tick == ms[pos[1]].tick
            IN Failed(intent.name,
                      "Metric '" \o field_name \o "' on '" \o entity_name \o "." \o component
                      \o "' value " \o ToString(value.n) \o " out of range ["
                      \o ToString(range_min) \o ", " \o ToString(range_max) \o "] at tick "
                      \o ToString(tick),
                      Num(tick), <<ChangeAt(ms, pos)>>,
                      "Clamp or limit the '" \o field_name \o "' value of '" \o component
                      \o "' to stay within [" \o ToString(range_min) \o ", "
                      \o ToString(range_max) \o "].")

(***************************************************************************)
(* Invariant verification (VerificationEngine._verify_invariant and the    *)
(* three condition evaluators).  The text of a caught exception is         *)
(* abbreviated to its class name.                                          *)
(***************************************************************************)
\* the scan of an aggregate or entity_count condition over the manifests;
\* actuals[i] is the count read from the i-th manifest
CountScan(intent_name, ms, actuals, op, target_value, what, subject, hint) ==
    LET violated == {i \in 1..Len(ms) : ~compare(actuals[i], op, target_value)}
    IN IF violated = {} THEN Passed(intent_name, None, <<>>)
       ELSE LET m == ms[Min(violated)]
            IN Failed(intent_name,
                      what \o " invariant violated at tick " \o ToString(m.tick) \o ": "
                      \o subject \o " is " \o ToString(actuals[Min(violated)])
                      \o ", expected " \o op
                      \o " " \o ToString(target_value),
                      Num(m.tick), <<>>,
                      "Ensure " \o hint \o " satisfies '" \o op \o " "
                      \o ToString(target_value) \o "' on every tick.")

verify_aggregate_invariant(intent_name, condition, ms) ==
    LET rest == Slice(condition, Len("aggregate:") + 1, Len(condition))
        parts == SplitWs(rest)
    IN IF Len(parts) < 3
       THEN Failed(intent_name, "Malformed aggregate condition: '" \o condition \o "'",
                   None, <<>>, "")
       ELSE IF ~IsNumeral(parts[3])
       THEN Failed(intent_name,
                   "Failed to parse aggregate condition '" \o condition \o "': ValueError",
                   None, <<>>, "")
       ELSE LET entity_type == parts[1]
                actuals == [i \in 1..Len(ms) |->
                              Get(ms[i].aggregates.entity_count_by_type, entity_type, 0)]
            IN CountScan(intent_name, ms, actuals, parts[2], NumeralVal(parts[3]),
                         "Aggregate", entity_type \o " count", "'" \o entity_type \o "' count")

verify_entity_count_invariant(intent_name, condition, ms) ==
    LET parts == SplitWs(condition)
    IN IF Len(parts) < 3
       THEN Failed(intent_name, "Malformed entity_count condition: '" \o condition \o "'",
                   None, <<>>, "")
       ELSE IF ~IsNumeral(parts[3])
       THEN Failed(intent_name,
                   "Failed to parse entity_count condition '" \o condition \o "': ValueError",
                   None, <<>>, "")
       ELSE LET actuals == [i \in 1..Len(ms) |-> ms[i].aggregates.total_entity_count]
            IN CountScan(intent_name, ms, actuals, parts[2], NumeralVal(parts[3]),
                         "Entity count", "total", "total entity count")

\* the scan of a parsed component_range condition over the manifests
RangeScan(intent_name, ms, entity_name, component, field_name, range_min, range_max) ==
    LET bad == {pos \in Positions(ms) :
                  /\ ChangeAt(ms, pos).component_type_name = component
                  /\ matches_entity(ChangeAt(ms, pos), entity_name)
                  /\ LET value == extract_field_value(ChangeAt(ms, pos).new_value, field_name)
                     IN IsNum(value) /\ (value.n < range_min \/ value.n > range_max)}
    IN IF bad = {} THEN Passed(intent_name, None, <<>>)
       ELSE LET pos == FirstPos(bad)
                value == extract_field_value(ChangeAt(ms, pos).new_value, field_name)
                tick == ms[pos[1]].tick
            IN Failed(intent_name,
                      "Entity '" \o entity_name \o "' " \o component \o "." \o field_name
                      \o " = " \o ToString(value.n) \o " out of range ["
                      \o ToString(range_min) \o ", " \o ToString(range_max) \o "] at tick "
                      \o ToString(tick),
                      Num(tick), <<ChangeAt(ms, pos)>>,
                      "Clamp '" \o entity_name \o "' " \o component \o "." \o field_name
                      \o " to stay within [" \o ToString(range_min) \o ", "
                      \o ToString(range_max) \o "].")

verify_component_range_invariant(intent_name, condition, ms) ==
    LET rest == Slice(condition, Len("component_range:") + 1, Len(condition))
        halves == SplitOn(rest, " in ")
        ParseFailed == Failed(intent_name,
                              "Failed to parse component_range '" \o condition
                              \o "': ValueError", None, <<>>, "")
    IN IF Len(halves) # 2 THEN ParseFailed
       ELSE
       LET path_part == halves[1]
           range_part == halves[2]
           path_parts == SplitOn(Strip(path_part), ".")
           range_trimmed == Strip(range_part)
           range_str == Slice(range_trimmed, 2, Len(range_trimmed) - 1)
           bounds == SplitOn(range_str, ",")
       IN IF Len(path_parts) # 3
          THEN Failed(intent_name,
                      "Malformed component_range: need entity.component.field, got '"
                      \o Strip(path_part) \o "'", None, <<>>, "")
          ELSE IF ~(StartsWith(range_trimmed, "[") /\ EndsWith(range_trimmed, "]"))
          THEN Failed(intent_name,
                      "Malformed component_range: range must be enclosed in brackets, "
                      \o "e.g. [0, 800], got '" \o range_trimmed \o "'", None, <<>>, "")
          ELSE IF \E i \in 1..Len(bounds) : ~IsNumeral(Strip(bounds[i]))
          THEN ParseFailed
          ELSE IF Len(bounds) # 2 THEN ParseFailed
          ELSE LET range_min == NumeralVal(Strip(bounds[1]))
                   range_max == NumeralVal(Strip(bounds[2]))
               IN IF range_min > range_max
                  THEN Failed(intent_name,
                              "Malformed component_range: min (" \o ToString(range_min)
                              \o ") > max (" \o ToString(range_max) \o ") in '"
                              \o condition \o "'", None, <<>>, "")
                  ELSE RangeScan(intent_name, ms, path_parts[1], path_parts[2],
                                 path_parts[3], range_min, range_max)

verify_invariant(intent, ms) ==
    LET condition == OptStr(intent.condition)
    IN IF StartsWith(condition, "aggregate:")
       THEN verify_aggregate_invariant(intent.name, condition, ms)
       ELSE IF StartsWith(condition, "entity_count")
       THEN verify_entity_count_invariant(intent.name, condition, ms)
       ELSE IF StartsWith(condition, "component_range:")
       THEN verify_component_range_invariant(intent.name, condition, ms)
       ELSE IntentResult(intent.name, TRUE, "", None, <<>>,
                         "This invariant uses a free-form condition string that "
                         \o "is not evaluated in the spike. Convert to a structured "
                         \o "condition (aggregate:, entity_count, or component_range:) "
                         \o "for full evaluation.")

(***************************************************************************)
(* Physics sanity checks (nomai/physics_sanity.py).  A registry maps an    *)
(* entity id to its PhysicsEntityInfo.  restitution is in hundredths       *)
(* (100 is 1.0); positions and velocities are integers.  Each check        *)
(* returns its failed results in scan order.                               *)
(***************************************************************************)
PhysicsEntityInfo(entity_id, body_type, restitution, collider_shape) ==
    [entity_id |-> entity_id, body_type |-> body_type, restitution |-> restitution,
     collider_shape |-> collider_shape]

RECURSIVE Flatten(_)
Flatten(seqs) == IF Len(seqs) = 0 THEN <<>> ELSE Head(seqs) \o Flatten(Tail(seqs))

\* repr() of a float given in hundredths: 100 is "1.0", 80 is "0.8", 75 is "0.75"
FloatRepr(h) ==
    ToString(h \div 100) \o "."
    \o (IF h % 10 = 0 THEN ToString((h % 100) \div 10)
        ELSE (IF h % 100 < 10 THEN "0" ELSE "") \o ToString(h % 100))

\* format(x, ".1f") of a float given in tenths
OneDecimal(tenths) == ToString(tenths \div 10) \o "." \o ToString(tenths % 10)

\* repr() of a component value: a dict of integers prints its items in
\* insertion order, which for the components here is x, y, dx, dy
FieldOrder == <<"x", "y", "dx", "dy">>

RECURSIVE ItemsRepr(_, _)
ItemsRepr(d, keys) ==
    IF Len(keys) = 0 THEN ""
    ELSE "'" \o Head(keys) \o "': " \o PyStr(d[Head(keys)])
         \o (IF Len(keys) = 1 THEN "" ELSE ", ") \o ItemsRepr(d, Tail(keys))

PyRepr(v) ==
    IF IsDict(v)
    THEN "{" \o ItemsRepr(v.d, SelectSeq(FieldOrder, LAMBDA k : k \in DOMAIN v.d)) \o "}"
    ELSE PyStr(v)

\* a change whose dx or dy has opposite signs before and after
SignFlip(change) ==
    /\ IsDict(change.old_value)
    /\ IsDict(change.new_value)
    /\ \E axis \in {"dx", "dy"} :
          LET ov == Get(change.old_value.d, axis, Num(0))
              nv == Get(change.new_value.d, axis, Num(0))
          IN IsNum(ov) /\ IsNum(nv) /\ ov.n * nv.n < 0

\* a bounce search that stops one manifest earlier
found_sign_flip_three(ms, i, eid) ==
    \E j \in i..(PyMin(i + 3, Len(ms)) - 1) :
       \E c \in 1..Len(ms[j + 1].component_changes) :
          /\ ms[j + 1].component_changes[c].entity_id = eid
          /\ ms[j + 1].component_changes[c].component_type_name = "velocity"
          /\ SignFlip(ms[j + 1].component_changes[c])

\* the search for a bounce of entity eid after the collision at index i
\* (0-based): for j in range(i, min(i + 4, len(manifests)))
found_sign_flip(ms, i, eid) ==
    \E j \in i..(PyMin(i + 4, Len(ms)) - 1) :
       \E c \in 1..Len(ms[j + 1].component_changes) :
          /\ ms[j + 1].component_changes[c].entity_id = eid
          /\ ms[j + 1].component_changes[c].component_type_name = "velocity"
          /\ SignFlip(ms[j + 1].component_changes[c])

\* the results of one collision event of the manifest at index i (0-based)
bounce_results(registry, ms, i, event) ==
    Flatten([k \in 1..Len(event.involved_entities) |->
        LET eid == event.involved_entities[k]
        IN IF eid \notin DOMAIN registry THEN <<>>
           ELSE IF registry[eid].body_type # "dynamic" THEN <<>>
           ELSE IF registry[eid].restitution <= 0 THEN <<>>
           ELSE IF found_sign_flip(ms, i, eid) THEN <<>>
           ELSE <<Failed("physics_sanity:bounce_response(entity_" \o ToString(eid) \o ")",
                         "Dynamic entity " \o ToString(eid) \o " (restitution="
                         \o FloatRepr(registry[eid].restitution)
                         \o ") was in a collision at tick " \o ToString(ms[i + 1].tick)
                         \o " but no velocity sign flip was detected within 3 ticks",
                         Num(ms[i + 1].tick), <<>>,
                         "Check that the colliding entity's collider persists long enough "
                         \o "for rapier's solver to resolve the bounce. Use "
                         \o "deferred_unregister instead of unregister_entity for entities "
                         \o "involved in collisions.")>>])

check_collision_responses(registry, ms) ==
    Flatten([m \in 1..Len(ms) |->
        Flatten([e \in 1..Len(ms[m].events) |->
            IF ms[m].events[e].event_type # "collision" THEN <<>>
            ELSE bounce_results(registry, ms, m - 1, ms[m].events[e])])])

\* the result of one change of the manifest with tick t
static_results(registry, change, t) ==
    IF change.entity_id \notin DOMAIN registry THEN <<>>
    ELSE IF registry[change.entity_id].body_type # "static" THEN <<>>
    ELSE IF change.component_type_name \notin {"position", "velocity"} THEN <<>>
    ELSE IF change.old_value = None THEN <<>>
    ELSE IF change.old_value = change.new_value THEN <<>>
    ELSE <<Failed("physics_sanity:static_immobility(entity_"
                  \o ToString(change.entity_id) \o ")",
                  "Static entity " \o ToString(change.entity_id) \o " had "
                  \o change.component_type_name \o " change at tick " \o ToString(t)
                  \o ": " \o PyRepr(change.old_value) \o " -> " \o PyRepr(change.new_value),
                  Num(t), <<>>,
                  "Static bodies should not move. Check if an external force "
                  \o "or sync operation is modifying this entity unexpectedly.")>>

check_static_immobility(registry, ms) ==
    Flatten([m \in 1..Len(ms) |->
        Flatten([c \in 1..Len(ms[m].component_changes) |->
            static_results(registry, ms[m].component_changes[c], ms[m].tick)])])

\* position p comes before position q in (manifest, change) order
Before(p, q) == p[1] < q[1] \/ (p[1] = q[1] /\ p[2] < q[2])

\* last_velocity.get(eid, {}) when the scan reaches position pos: the numeric
\* items of the latest velocity the entity was given before pos
last_velocity(ms, pos, eid) ==
    LET seen == {q \in Positions(ms) :
                    /\ Before(q, pos)
                    /\ ChangeAt(ms, q).entity_id = eid
                    /\ ChangeAt(ms, q).component_type_name = "velocity"
                    /\ IsDict(ChangeAt(ms, q).new_value)}
    IN IF seen = {} THEN [k \in {} |-> 0]
       ELSE LET last == CHOOSE q \in seen : \A r \in seen : r = q \/ Before(r, q)
                nv == ChangeAt(ms, last).new_value.d
            IN [k \in {f \in DOMAIN nv : IsNum(nv[f])} |-> nv[k].n]

\* one axis of one position change.  max_displacement = speed * dt * 2.0
\* with dt = 1/60, so it is positive exactly when speed is, and
\* actual > max_displacement exactly when 30 * actual > speed.
axis_results(change, vel, axis, vel_axis, t) ==
    LET old_v == Get(change.old_value.d, axis, None)
        new_v == Get(change.new_value.d, axis, None)
        speed == Abs(Get(vel, vel_axis, 0))
        actual == Abs(new_v.n - old_v.n)
    IN IF ~IsNum(old_v) \/ ~IsNum(new_v) THEN <<>>
       ELSE IF speed > 0 /\ 30 * actual > speed
       THEN <<Failed("physics_sanity:no_tunneling(entity_" \o ToString(change.entity_id)
                     \o ")",
                     "Dynamic entity " \o ToString(change.entity_id) \o " moved "
                     \o OneDecimal(10 * actual) \o " on " \o axis \o "-axis at tick "
                     \o ToString(t) \o ", but max expected displacement is "
                     \o OneDecimal((2 * speed + 3) \div 6) \o " (speed="
                     \o OneDecimal(10 * speed) \o ", dt=0.016666666666666666)",
                     Num(t), <<>>,
                     "Large position jumps may indicate tunneling through "
                     \o "collision geometry. Consider enabling CCD (continuous "
                     \o "collision detection) or reducing the timestep.")>>
       ELSE <<>>

\* the results of the change at position pos
tunneling_results(registry, ms, pos) ==
    LET change == ChangeAt(ms, pos)
    IN IF change.entity_id \notin DOMAIN registry THEN <<>>
       ELSE IF registry[change.entity_id].body_type # "dynamic" THEN <<>>
       ELSE IF change.component_type_name # "position" THEN <<>>
       ELSE IF ~IsDict(change.old_value) \/ ~IsDict(change.new_value) THEN <<>>
       ELSE axis_results(change, last_velocity(ms, pos, change.entity_id), "x", "dx",
                         ms[pos[1]].tick)
            \o axis_results(change, last_velocity(ms, pos, change.entity_id), "y", "dy",
                            ms[pos[1]].tick)

check_no_tunneling(registry, ms) ==
    Flatten([m \in 1..Len(ms) |->
        Flatten([c \in 1..Len(ms[m].component_changes) |->
            tunneling_results(registry, ms, <<m, c>>)])])

\* sanity checks run in another order
sanity_results_tunneling_first(registry, ms) ==
    check_no_tunneling(registry, ms)
    \o check_collision_responses(registry, ms)
    \o check_static_immobility(registry, ms)

\* what verify() appends when it is given a registry
sanity_results(registry, ms) ==
    check_collision_responses(registry, ms)
    \o check_static_immobility(registry, ms)
    \o check_no_tunneling(registry, ms)

(***************************************************************************)
(* VerificationReport and VerificationEngine.verify.  wall_time_ms is not  *)
(* modelled: nothing reads it.  physics_registry is None or a Dict whose   *)
(* items are the registry.                                                 *)
(***************************************************************************)
CountPassed(results) == Cardinality({i \in 1..Len(results) : results[i].passed})

\* a report that counts every result as passed
VerificationReport_all_counted_passed(suite_name, results, ticks_examined) ==
    [suite_name |-> suite_name, total_intents |-> Len(results),
     passed |-> Len(results), failed |-> 0,
     results |-> results, ticks_examined |-> ticks_examined]

VerificationReport(suite_name, results, ticks_examined) ==
    [suite_name |-> suite_name, total_intents |-> Len(results),
     passed |-> CountPassed(results), failed |-> Len(results) - CountPassed(results),
     results |-> results, ticks_examined |-> ticks_examined]

all_passed(rep) == rep.failed = 0

failures(rep) == SelectSeq(rep.results, LAMBDA r : ~r.passed)

\* SuggestedFix(intent_name, fix_type, description, priority)
SuggestedFix(intent_name, fix_type, description, priority) ==
    [intent_name |-> intent_name, fix_type |-> fix_type, description |-> description,
     priority |-> priority]

\* a classifier that does not know the out-of-range failures
classify_failure_without_range(result) ==
    IF Contains("not found", Lower(result.failure_reason)) THEN "entity_not_found"
    ELSE IF Contains("never fired", Lower(result.failure_reason)) THEN "trigger_never_fired"
    ELSE IF Contains("not met", Lower(result.failure_reason)) THEN "timeout"
    ELSE "unknown"

\* the fix type of a lower-cased failure reason
classify_reason(reason) ==
    IF Contains("no entity found", reason) \/ Contains("not found", reason)
    THEN "entity_not_found"
    ELSE IF Contains("never fired", reason)
    THEN "trigger_never_fired"
    ELSE IF Contains("not met", reason)
            /\ (Contains("timeout", reason) \/ Contains("within", reason))
    THEN "timeout"
    ELSE IF Contains("out of range", reason) \/ Contains("expected value", reason)
    THEN "wrong_value"
    ELSE "unknown"

\* VerificationReport._classify_failure
classify_failure(result) == classify_reason(Lower(result.failure_reason))

\* the fix suggested for one failed result
suggested_fix(r, fix_type) ==
    SuggestedFix(r.intent_name, fix_type,
                 IF r.suggestion # "" THEN r.suggestion ELSE r.failure_reason,
                 IF fix_type = "entity_not_found" THEN "high" ELSE "medium")

\* VerificationReport.suggested_fixes
suggested_fixes(rep) ==
    [k \in 1..Len(failures(rep)) |->
        suggested_fix(failures(rep)[k], classify_failure(failures(rep)[k]))]

\* the result of one intent, or the exception its evaluator raises
verify_intent(intent, ms, entity_index) ==
    CASE intent.kind = "entity" -> verify_entity(intent, ms, entity_index)
      [] intent.kind = "behavior" -> verify_behavior(intent, ms)
      [] intent.kind = "metric" -> verify_metric(intent, ms)
      [] intent.kind = "invariant" -> verify_invariant(intent, ms)
      [] OTHER -> Failed(intent.name, "Unknown intent kind: " \o intent.kind, None, <<>>, "")

verify(suite, ms, entity_index, physics_registry) ==
    LET results == [i \in 1..Len(suite.intents) |->
                       verify_intent(suite.intents[i], ms, entity_index)]
        raising == {i \in 1..Len(results) : IsRaised(results[i])}
    IN IF raising # {} THEN results[Min(raising)]
       ELSE IF physics_registry # None
       THEN VerificationReport(suite.name,
                               results \o sanity_results(physics_registry.d, ms), Len(ms))
       ELSE VerificationReport(suite.name, results, Len(ms))

(***************************************************************************)
(* RegressionTest.create and RegressionTest.replay.                        *)
(***************************************************************************)
RegressionTest(name, suite, ms, rep) ==
    [name |-> name, suite |-> suite, manifests |-> ms,
     expected_pass_count |-> rep.passed, expected_fail_count |-> rep.failed]

ReplayResult(passed, reason, expected_passed, expected_failed, actual_passed, actual_failed) ==
    [passed |-> passed, reason |-> reason,
     expected_passed |-> expected_passed, expected_failed |-> expected_failed,
     actual_passed |-> actual_passed, actual_failed |-> actual_failed]

NoEntityIndex == [role \in {} |-> NoParams]

\* the comparison of a replay's report with the counts stored in the test
replay_result(test, rep) ==
    IF IsRaised(rep) THEN rep
    ELSE IF rep.passed = test.expected_pass_count /\ rep.failed = test.expected_fail_count
    THEN ReplayResult(TRUE, "Regression test passed: results match expected counts",
                      test.expected_pass_count, test.expected_fail_count,
                      rep.passed, rep.failed)
    ELSE ReplayResult(FALSE,
                      "Regression drift detected: expected "
                      \o ToString(test.expected_pass_count) \o " pass / "
                      \o ToString(test.expected_fail_count) \o " fail, got "
                      \o ToString(rep.passed) \o " pass / "
                      \o ToString(rep.failed) \o " fail",
                      test.expected_pass_count, test.expected_fail_count,
                      rep.passed, rep.failed)

\* a replay that always runs on the stored manifests
replay_ignoring_override(test, manifests_override) ==
    replay_result(test, verify(test.suite, test.manifests, NoEntityIndex, None))

\* manifests_override is None or List(manifests)
replay(test, manifests_override) ==
    LET ms == IF manifests_override # None THEN manifests_override.xs ELSE test.manifests
    IN replay_result(test, verify(test.suite, ms, NoEntityIndex, None))

(***************************************************************************)
(* The simulation's output: the manifests a tick can produce.              *)
(***************************************************************************)
Bricks(n) == Aggregates([brick |-> n], n + 1)

HitEvent(t) == GameEvent("collision", "hit", <<1, 100>>, "CollisionResponse", "ball:brick", t)

VelocityChange(old_dx, new_dx, t) ==
    ComponentChange(1, "velocity", Dict([dx |-> Num(old_dx), dy |-> Num(3)]),
                    Dict([dx |-> Num(new_dx), dy |-> Num(3)]), "GameRule", "ball", t)

PositionChange(x, t) ==
    ComponentChange(1, "position", Dict([x |-> Num(x - 1)]), Dict([x |-> Num(x)]),
                    "GameRule", "ball", t)

\* a velocity write of the paddle (entity 2)
PaddleVelocity(new_dx, t) ==
    ComponentChange(2, "velocity", Dict([dx |-> Num(0), dy |-> Num(0)]),
                    Dict([dx |-> Num(new_dx), dy |-> Num(0)]), "PlayerInput", "Paddle:keys", t)

\* the first write of a component: there is no old value
FirstVelocity(new_dx, t) ==
    ComponentChange(1, "velocity", None, Dict([dx |-> Num(new_dx), dy |-> Num(3)]),
                    "GameRule", "ball", t)

\* a velocity write that changes dy only
FallChange(old_dy, new_dy, t) ==
    ComponentChange(1, "velocity", Dict([dx |-> Num(5), dy |-> Num(old_dy)]),
                    Dict([dx |-> Num(5), dy |-> Num(new_dy)]), "GameRule", "ball", t)

\* a velocity write along the x axis
GlideChange(old_dx, new_dx, t) ==
    ComponentChange(1, "velocity", Dict([dx |-> Num(old_dx), dy |-> Num(0)]),
                    Dict([dx |-> Num(new_dx), dy |-> Num(0)]), "GameRule", "ball", t)

\* a position write: the entity moves from the origin to (x, y)
MoveChange(eid, rdetail, x, y, t) ==
    ComponentChange(eid, "position", Dict([x |-> Num(0), y |-> Num(0)]),
                    Dict([x |-> Num(x), y |-> Num(y)]), "GameRule", rdetail, t)

CollisionEvent(involved, rdetail, t) ==
    GameEvent("collision", "hit", involved, "CollisionResponse", rdetail, t)

SpawnChange(t) ==
    ComponentChange(2, "identity", None,
                    Dict([role |-> Str("paddle"), entity_type |-> Str("character")]),
                    "SystemInternal", "spawn", t)

MakeManifest(shape, t) ==
    CASE shape = "quiet" -> TickManifest(t, <<>>, <<>>, <<>>, Bricks(2))
      [] shape = "hit" -> TickManifest(t, <<>>, <<>>, <<HitEvent(t)>>, Bricks(2))
      [] shape = "bounce" ->
            TickManifest(t, <<>>, <<VelocityChange(-5, 5, t)>>, <<>>, Bricks(2))
      [] shape = "stall" ->
            TickManifest(t, <<>>, <<VelocityChange(5, 0, t)>>, <<>>, Bricks(2))
      [] shape = "escape" ->
            TickManifest(t, <<>>, <<PositionChange(900, t)>>, <<>>, Bricks(2))
      [] shape = "cleared" ->
            TickManifest(t, <<100>>, <<>>, <<HitEvent(t)>>, Bricks(0))
      [] shape = "spawn" -> TickManifest(t, <<>>, <<SpawnChange(t)>>, <<>>, Bricks(2))
      [] shape = "wall_hit" ->
            TickManifest(t, <<>>, <<>>, <<CollisionEvent(<<1, 200>>, "ball:wall", t)>>,
                         Bricks(2))
      [] shape = "split_hits" ->
            TickManifest(t, <<>>, <<>>,
                         <<CollisionEvent(<<1, 200>>, "ball:wall", t),
                           CollisionEvent(<<2, 100>>, "paddle:brick", t)>>, Bricks(2))
      [] shape = "shout_hit" ->
            TickManifest(t, <<>>, <<>>, <<CollisionEvent(<<1, 100>>, "Ball:BRICK", t)>>,
                         Bricks(2))
      [] shape = "scored" ->
            TickManifest(t, <<>>, <<>>,
                         <<GameEvent("score", "brick broken", <<1, 100>>, "GameRule",
                                     "ball:brick", t)>>, Bricks(2))
      [] shape = "despawn_bare" -> TickManifest(t, <<100>>, <<>>, <<>>, Bricks(1))
      [] shape = "despawn_unlinked" ->
            TickManifest(t, <<100>>, <<VelocityChange(-5, 5, t)>>,
                         <<CollisionEvent(<<1, 200>>, "ball:brick", t)>>, Bricks(1))
      [] shape = "despawn_identity" ->
            TickManifest(t, <<2>>, <<SpawnChange(t)>>, <<>>, Bricks(2))
      [] shape = "despawn_reason" ->
            TickManifest(t, <<1>>, <<VelocityChange(5, 0, t)>>, <<>>, Bricks(2))
      [] shape = "launch" ->
            TickManifest(t, <<>>, <<VelocityChange(0, 5, t)>>, <<>>, Bricks(2))
      [] shape = "reflect" ->
            TickManifest(t, <<>>, <<VelocityChange(10, -11, t)>>, <<>>, Bricks(2))
      [] shape = "nudge" ->
            TickManifest(t, <<>>, <<VelocityChange(10, 11, t)>>, <<>>, Bricks(2))
      [] shape = "surge" ->
            TickManifest(t, <<>>, <<VelocityChange(10, 12, t)>>, <<>>, Bricks(2))
      [] shape = "drop" ->
            TickManifest(t, <<>>, <<FallChange(3, -3, t)>>, <<>>, Bricks(2))
      [] shape = "halt" ->
            TickManifest(t, <<>>, <<GlideChange(30, 0, t)>>, <<>>, Bricks(2))
      [] shape = "rush" ->
            TickManifest(t, <<>>, <<GlideChange(5, 30, t)>>, <<>>, Bricks(2))
      [] shape = "turn" ->
            TickManifest(t, <<>>, <<GlideChange(30, -30, t)>>, <<>>, Bricks(2))
      [] shape = "step" ->
            TickManifest(t, <<>>, <<MoveChange(1, "ball", 1, 0, t)>>, <<>>, Bricks(2))
      [] shape = "stride" ->
            TickManifest(t, <<>>, <<MoveChange(1, "ball", 2, 0, t)>>, <<>>, Bricks(2))
      [] shape = "leap" ->
            TickManifest(t, <<>>, <<MoveChange(1, "ball", 100, 0, t)>>, <<>>, Bricks(2))
      [] shape = "brick_moved" ->
            TickManifest(t, <<>>, <<MoveChange(100, "brick", 1, 0, t)>>, <<>>, Bricks(2))
      [] shape = "mayhem" ->
            TickManifest(t, <<>>,
                         <<MoveChange(100, "brick", 1, 0, t), GlideChange(5, 30, t),
                           MoveChange(1, "ball", 2, 0, t)>>,
                         <<HitEvent(t)>>, Bricks(2))
      [] shape = "spawn_ball" ->
            TickManifest(t, <<>>,
                         <<ComponentChange(1, "identity", None,
                                           Dict([role |-> Str("ball"),
                                                 entity_type |-> Str("ball")]),
                                           "SystemInternal", "spawn", t)>>, <<>>, Bricks(2))
      [] shape = "unspawn" ->
            TickManifest(t, <<>>,
                         <<ComponentChange(2, "identity",
                                           Dict([role |-> Str("paddle"),
                                                 entity_type |-> Str("character")]),
                                           None, "SystemInternal", "remove", t)>>,
                         <<>>, Bricks(2))
      [] shape = "struck" ->
            TickManifest(t, <<>>,
                         <<ComponentChange(100, "health", Dict([hp |-> Num(2)]),
                                           Dict([hp |-> Num(1)]), "CollisionResponse",
                                           "Ball:Brick", t)>>, <<>>, Bricks(2))
      [] shape = "drift" ->
            TickManifest(t, <<>>, <<PaddleVelocity(12, t)>>, <<>>, Bricks(2))
      [] shape = "pair" ->
            TickManifest(t, <<>>, <<PaddleVelocity(20, t), VelocityChange(5, 12, t)>>,
                         <<>>, Bricks(2))
      [] shape = "skipped" ->
            TickManifest(t, <<>>,
                         <<ComponentChange(1, "velocity", Dict([dx |-> Num(5)]),
                                           Dict([dx |-> Str("fast"), dy |-> Num(50)]),
                                           "GameRule", "ball", t),
                           ComponentChange(1, "velocity", Dict([dx |-> Num(5)]),
                                           Dict([dy |-> Num(50)]), "GameRule", "ball", t),
                           ComponentChange(1, "speed", Num(5), Num(50), "GameRule", "ball", t),
                           VelocityChange(5, 12, t)>>,
                         <<>>, Bricks(2))
      [] shape = "same" ->
            TickManifest(t, <<>>, <<VelocityChange(5, 5, t)>>, <<>>, Bricks(2))
      [] shape = "fresh" ->
            TickManifest(t, <<>>, <<FirstVelocity(5, t)>>, <<>>, Bricks(2))
      [] shape = "same_then_bounce" ->
            TickManifest(t, <<>>, <<VelocityChange(5, 5, t), VelocityChange(-5, 5, t)>>,
                         <<>>, Bricks(2))

NextTick(ms) == IF Len(ms) = 0 THEN FirstTick ELSE ms[Len(ms)].tick + 1

SeqsUpTo(S, n) == UNION {[1..k -> S] : k \in 0..n}

(***************************************************************************)
(* The driving program: the simulation emits manifests, then verify() is   *)
(* called once on them; its report can be frozen as a regression test,     *)
(* which is then replayed.                                                 *)
(***************************************************************************)
NoCall == [suite |-> None]
NoReport == [none |-> TRUE]
NoWire == [none |-> TRUE]

Init ==
    /\ manifests = <<>>
    /\ pc = "sim"
    /\ call = NoCall
    /\ report = NoReport
    /\ regression = None
    /\ replayed = None
    /\ wire = NoWire

\* one tick of the simulation: a manifest of one of the shapes is appended
Emit(shapes, max_ticks) ==
    /\ pc = "sim"
    /\ Len(manifests) < max_ticks
    /\ \E shape \in shapes :
          manifests' = Append(manifests, MakeManifest(shape, NextTick(manifests)))
    /\ UNCHANGED <<pc, call, report, regression, replayed, wire>>

\* engine.verify(suite, manifests, entity_index)
DoVerify(suite, entity_index) ==
    /\ pc = "sim"
    /\ call' = [suite |-> suite, entity_index |-> entity_index]
    /\ report' = verify(suite, manifests, entity_index, None)
    /\ pc' = IF IsRaised(report') THEN "raised" ELSE "verified"
    /\ UNCHANGED <<manifests, regression, replayed, wire>>

\* engine.verify(suite, manifests, entity_index, physics_registry)
DoVerifyWith(suite, entity_index, physics_registry) ==
    /\ pc = "sim"
    /\ call' = [suite |-> suite, entity_index |-> entity_index,
                physics_registry |-> physics_registry]
    /\ report' = verify(suite, manifests, entity_index, physics_registry)
    /\ pc' = IF IsRaised(report') THEN "raised" ELSE "verified"
    /\ UNCHANGED <<manifests, regression, replayed, wire>>

\* engine.verify(suite, manifests, physics_registry=physics_registry)
DoVerifyPhysics(suite, physics_registry) ==
    DoVerifyWith(suite, NoEntityIndex, physics_registry)

(***************************************************************************)
(* Spec: suites of mixed intents, regression capture and replay.           *)
(***************************************************************************)
MainShapes == {"quiet", "hit", "bounce"}

BounceExpected == component_changed("ball", "velocity", Str("dx"), None)

MainIntents ==
    {EntityIntent("paddle_exists", Str("paddle"), Str("character")),
     BehaviorIntent("ball_bounces", collision("ball", "brick"), BounceExpected,
                    DefaultTimeout),
     BehaviorIntent("late_check", after(tick_reached(FirstTick), -MaxDelay),
                    event_emitted("collision", None), DefaultTimeout),
     MetricIntent("speed_bounded", "ball", "velocity", "dx", Range(-10, 4)),
     InvariantIntent("bricks_remain", "aggregate:brick >")}

MainSuites == {VerificationSuite("suite", intents) : intents \in SeqsUpTo(MainIntents, MaxSuiteLen)}

EntityIndexes == {NoEntityIndex, [paddle |-> [entity_type |-> "character"]]}

Tick == Emit(MainShapes, MainTicks)

Verify == \E suite \in MainSuites, entity_index \in EntityIndexes : DoVerify(suite, entity_index)

\* RegressionTest.create(name, suite, manifests, report)
CreateRegression ==
    /\ pc = "verified"
    /\ regression' = RegressionTest("regression", call.suite, manifests, report)
    /\ pc' = "captured"
    /\ UNCHANGED <<manifests, call, report, replayed, wire>>

\* the manifests a replay can be given instead of the stored ones
Overrides(ms) == {None, List(SubSeq(ms, 1, Len(ms) - 1))}

\* test.replay(engine, manifests_override)
Replay ==
    /\ pc = "captured"
    /\ \E manifests_override \in Overrides(regression.manifests) :
          replayed' = [override |-> manifests_override,
                       result |-> replay(regression, manifests_override)]
    /\ pc' = IF IsRaised(replayed'.result) THEN "replay_raised" ELSE "replayed"
    /\ UNCHANGED <<manifests, call, report, regression, wire>>

Next == Tick \/ Verify \/ CreateRegression \/ Replay

Spec == Init /\ [][Next]_vars

(***************************************************************************)
(* SpecBehavior: one Behavior intent at a time, over every trigger,        *)
(* expected outcome and timeout below.                                     *)
(***************************************************************************)
BehaviorShapes == {"quiet", "hit", "bounce"}

BaseTriggers ==
    {collision("ball", "brick"),
     tick_reached(FirstTick + 1),
     component_condition("ball", "velocity", "dx", ">", Num(0))}

CompositeTriggers ==
    {and_(<<>>),
     or_(<<collision("ball", "brick"), tick_reached(FirstTick + 1)>>)}

NonAfterTriggers == BaseTriggers \cup CompositeTriggers

Delays == (-MaxDelay)..MaxDelay

AfterTriggers ==
    {after(child, k) : child \in BaseTriggers, k \in Delays}
    \cup {after(child, 0) : child \in CompositeTriggers}

Expecteds == {BounceExpected, event_emitted("collision", None)}

Timeouts == 0..MaxTimeout \cup {DefaultTimeout}

BehaviorIntents ==
    {BehaviorIntent("behavior", trigger, expected, timeout) :
        trigger \in NonAfterTriggers \cup AfterTriggers,
        expected \in Expecteds, timeout \in Timeouts}

TickB == Emit(BehaviorShapes, MaxTicks)

BehaviorSuites == {VerificationSuite("suite", <<intent>>) : intent \in BehaviorIntents}

VerifyB == \E suite \in BehaviorSuites : DoVerify(suite, NoEntityIndex)

NextB == TickB \/ VerifyB

SpecBehavior == Init /\ [][NextB]_vars

(***************************************************************************)
(* Properties of the Behavior evaluator (SpecBehavior).                    *)
(***************************************************************************)
TheIntent == call.suite.intents[1]

TheResult == report.results[1]

TickAt(ms, i) == ms[i + 1].tick

\* the manifest index at which a trigger fires: the first firing of a
\* directly evaluated trigger, the child's first firing plus the delay for
\* After(child, k)
TriggerIndex(trigger, ms) ==
    IF trigger.type = "after"
    THEN Min(FiringIndices(trigger.children[1], ms)) + trigger.params.delay_ticks.n
    ELSE Min(FiringIndices(trigger, ms))

TriggerFires(trigger, ms) ==
    /\ FiringIndices(IF trigger.type = "after" THEN trigger.children[1] ELSE trigger, ms) # {}
    /\ TriggerIndex(trigger, ms) \in 0..(Len(ms) - 1)

\* the indices j at or after the trigger index i at which the expected
\* outcome holds and tick(j) - tick(i) is within the given allowance
HoldsWithin(intent, ms, allowance) ==
    LET i == TriggerIndex(intent.trigger, ms)
    IN {j \in i..(Len(ms) - 1) :
          /\ TickAt(ms, j) - TickAt(ms, i) <= allowance
          /\ check_expected(intent.expected, ms[j + 1])}

BehaviorVerified == pc = "verified" /\ TheIntent.kind = "behavior"

\* C1 (as amended): for a Behavior intent whose trigger fires at manifest
\* index i (tick T), if the expected outcome holds at some tick T' with
\* T' >= T and T' - T < timeout_ticks (strictly: the window is half-open),
\* then the result has passed = true and trigger_tick = T.
C1_ExpectedInsideWindowPasses ==
    (/\ BehaviorVerified
     /\ TriggerFires(TheIntent.trigger, manifests)
     /\ HoldsWithin(TheIntent, manifests, TheIntent.timeout_ticks - 1) # {})
    => /\ TheResult.passed
       /\ TheResult.trigger_tick
            = Num(TickAt(manifests, TriggerIndex(TheIntent.trigger, manifests)))

\* C1 witness: the expected outcome first holds on the last tick of the
\* window, strictly after the trigger tick, and the intent passed
C1_Witness ==
    /\ BehaviorVerified
    /\ TriggerFires(TheIntent.trigger, manifests)
    /\ HoldsWithin(TheIntent, manifests, TheIntent.timeout_ticks - 1) # {}
    /\ LET i == TriggerIndex(TheIntent.trigger, manifests)
       IN Min(HoldsWithin(TheIntent, manifests, TheIntent.timeout_ticks - 1))
             = i + TheIntent.timeout_ticks - 1
    /\ TheIntent.timeout_ticks > 1
    /\ TheResult.passed

\* C1 as stated: T' - T <= timeout_ticks, equality included, is enough to pass
C1_AsStated ==
    (/\ BehaviorVerified
     /\ TriggerFires(TheIntent.trigger, manifests)
     /\ HoldsWithin(TheIntent, manifests, TheIntent.timeout_ticks) # {})
    => /\ TheResult.passed
       /\ TheResult.trigger_tick
            = Num(TickAt(manifests, TriggerIndex(TheIntent.trigger, manifests)))

AfterVerified ==
    /\ pc \in {"verified", "raised"}
    /\ TheIntent.kind = "behavior"
    /\ TheIntent.trigger.type = "after"
    /\ FiringIndices(TheIntent.trigger.children[1], manifests) # {}

\* C6: for a Behavior intent with trigger After(child, k) whose child first
\* fires at index i: when i + k < len(manifests) the result carries
\* trigger_tick = manifests[i + k].tick, a manifest of the sequence; when
\* i + k >= len(manifests) the result is failed with a reason that does not
\* contain 'never fired'.
C6_AfterResolvesToChildPlusDelay ==
    AfterVerified =>
       LET r == TriggerIndex(TheIntent.trigger, manifests)
       IN /\ ~IsRaised(report)
          /\ r >= Len(manifests) =>
                /\ ~TheResult.passed
                /\ ~Contains("never fired", TheResult.failure_reason)
          /\ r < Len(manifests) =>
                /\ r >= 0
                /\ TheResult.trigger_tick = Num(TickAt(manifests, r))

AfterZero(intent) ==
    /\ intent.kind = "behavior"
    /\ intent.trigger.type = "after"
    /\ intent.trigger.params.delay_ticks = Num(0)
    /\ intent.trigger.children[1].type # "after"

\* the otherwise identical intent whose trigger is the After's child
WithChildTrigger(intent) == [intent EXCEPT !.trigger = intent.trigger.children[1]]

\* C7: a Behavior intent with trigger After(c, 0), c not an After, yields
\* the same passed value and the same trigger_tick as the otherwise
\* identical intent with trigger c.
C7_AfterZeroIsChild ==
    (pc \in {"verified", "raised"} /\ AfterZero(TheIntent)) =>
       LET direct == verify_behavior(WithChildTrigger(TheIntent), manifests)
       IN /\ ~IsRaised(report)
          /\ ~IsRaised(direct)
          /\ TheResult.passed = direct.passed
          /\ TheResult.trigger_tick = direct.trigger_tick

\* C7 witness: After(c, 0) verified where c fires after the first manifest
\* and fires again later, and the intent passed
C7_Witness ==
    /\ pc = "verified"
    /\ AfterZero(TheIntent)
    /\ Cardinality(FiringIndices(TheIntent.trigger.children[1], manifests)) > 1
    /\ Min(FiringIndices(TheIntent.trigger.children[1], manifests)) > 0
    /\ TheResult.passed
    /\ TheResult.trigger_tick # None

(***************************************************************************)
(* SpecInvariant: one Invariant intent at a time, over the conditions      *)
(* below.                                                                  *)
(***************************************************************************)
InvariantShapes == {"quiet", "bounce", "stall", "cleared"}

WellFormedConditions ==
    {"aggregate:brick > 0",
     "entity_count <= 3",
     "component_range:ball.velocity.dx in [1, 10]"}

MalformedConditions ==
    {"aggregate:brick >", "aggregate:brick > x", "aggregate:brick ~ 0",
     "entity_count", "entity_count > x", "entity_count ~ 1",
     "component_range:ball.velocity in [1, 5]",
     "component_range:ball.velocity.dx in 1, 5",
     "component_range:ball.velocity.dx in [a, 5]",
     "component_range:ball.velocity.dx in [5, 1]"}

OtherConditions ==
    {"degenerate_guard:ball.velocity.dx != 0",
     "degenerate_guard:ball.position.x != 0",
     "ball never leaves the arena"}

Conditions == WellFormedConditions \cup MalformedConditions \cup OtherConditions

TickI == Emit(InvariantShapes, MaxTicks)

InvariantSuites ==
    {VerificationSuite("suite", <<InvariantIntent("invariant", condition)>>) :
        condition \in Conditions}

VerifyI == \E suite \in InvariantSuites : DoVerify(suite, NoEntityIndex)

NextI == TickI \/ VerifyI

SpecInvariant == Init /\ [][NextI]_vars

(***************************************************************************)
(* Properties of the Invariant evaluator (SpecInvariant).                  *)
(***************************************************************************)
Ops == {"==", "!=", "<", "<=", ">", ">="}

IsName(s) == Len(s) > 0 /\ ~Contains(" ", s) /\ ~Contains(".", s)

\* the condition micro-grammar: op SP number after the subject
IsOpNumber(parts) == Len(parts) = 2 /\ parts[1] \in Ops /\ IsNumeral(parts[2])

IsAggregate(c) ==
    /\ StartsWith(c, "aggregate:")
    /\ LET parts == SplitOn(Slice(c, Len("aggregate:") + 1, Len(c)), " ")
       IN Len(parts) = 3 /\ IsName(parts[1]) /\ IsOpNumber(SubSeq(parts, 2, 3))

IsEntityCount(c) ==
    LET parts == SplitOn(c, " ")
    IN Len(parts) = 3 /\ parts[1] = "entity_count" /\ IsOpNumber(SubSeq(parts, 2, 3))

IsPath(s) ==
    LET names == SplitOn(s, ".")
    IN Len(names) = 3 /\ \A i \in 1..3 : IsName(names[i])

IsComponentRange(c) ==
    /\ StartsWith(c, "component_range:")
    /\ EndsWith(c, "]")
    /\ LET halves == SplitOn(Slice(c, Len("component_range:") + 1, Len(c) - 1), " in [")
       IN /\ Len(halves) = 2
          /\ IsPath(halves[1])
          /\ LET bounds == SplitOn(halves[2], ", ")
             IN /\ Len(bounds) = 2
                /\ IsNumeral(bounds[1]) /\ IsNumeral(bounds[2])
                /\ NumeralVal(bounds[1]) <= NumeralVal(bounds[2])

HasRecognisedPrefix(c) ==
    StartsWith(c, "aggregate:") \/ StartsWith(c, "entity_count")
       \/ StartsWith(c, "component_range:")

ConformsToGrammar(c) == IsAggregate(c) \/ IsEntityCount(c) \/ IsComponentRange(c)

InvariantVerified == pc \in {"verified", "raised"} /\ TheIntent.kind = "invariant"

\* C4: an Invariant intent whose condition starts with a recognised prefix
\* but does not conform to the micro-grammar yields passed = false and
\* raises nothing, for every manifest sequence including the empty one.
C4_MalformedConditionFails ==
    (/\ InvariantVerified
     /\ HasRecognisedPrefix(TheIntent.condition.s)
     /\ ~ConformsToGrammar(TheIntent.condition.s))
    => ~IsRaised(report) /\ ~TheResult.passed

IsDegenerateGuard(c) ==
    /\ StartsWith(c, "degenerate_guard:")
    /\ LET halves == SplitOn(Slice(c, Len("degenerate_guard:") + 1, Len(c)), " != ")
       IN Len(halves) = 2 /\ IsPath(halves[1]) /\ IsNumeral(halves[2])

\* the changes a degenerate guard forbids: the named component of the
\* named entity with the named numeric field at the forbidden value
ForbiddenChanges(c, ms) ==
    LET halves == SplitOn(Slice(c, Len("degenerate_guard:") + 1, Len(c)), " != ")
        path == SplitOn(halves[1], ".")
    IN {pos \in Positions(ms) :
          /\ ChangeAt(ms, pos).component_type_name = path[2]
          /\ matches_entity(ChangeAt(ms, pos), path[1])
          /\ LET value == extract_field_value(ChangeAt(ms, pos).new_value, path[3])
             IN IsNum(value) /\ value.n = NumeralVal(halves[2])}

\* C5: an Invariant intent with a degenerate_guard condition fails if some
\* manifest holds a change of that entity's component whose numeric field
\* equals the forbidden value, and passes only if there is none.
C5_DegenerateGuardIsEvaluated ==
    (/\ InvariantVerified
     /\ IsDegenerateGuard(TheIntent.condition.s))
    => /\ ~IsRaised(report)
       /\ TheResult.passed <=> ForbiddenChanges(TheIntent.condition.s, manifests) = {}

(***************************************************************************)
(* Properties of verify() over suites and of regression replay (Spec).     *)
(***************************************************************************)
\* C2: verify() returns normally for every suite and every manifest
\* sequence, with exactly one result per intent, in declaration order.
C2_PerIntentIsolation ==
    pc \in {"verified", "raised"} =>
       /\ ~IsRaised(report)
       /\ Len(report.results) = Len(call.suite.intents)
       /\ \A k \in 1..Len(call.suite.intents) :
             report.results[k].intent_name = call.suite.intents[k].name

\* the manifests a replay runs on
ReplayManifests ==
    IF replayed.override # None THEN replayed.override.xs ELSE regression.manifests

\* C8: replay returns passed = true exactly when the re-run report's passed
\* and failed counts equal the stored expected counts; the result carries
\* the stored expected counts and the re-run's actual counts; and a failed
\* replay's reason names all four counts.
C8_ReplayComparesCounts ==
    pc = "replayed" =>
       LET rerun == verify(regression.suite, ReplayManifests, NoEntityIndex, None)
           r == replayed.result
       IN /\ r.passed <=> (/\ rerun.passed = regression.expected_pass_count
                           /\ rerun.failed = regression.expected_fail_count)
          /\ r.expected_passed = regression.expected_pass_count
          /\ r.expected_failed = regression.expected_fail_count
          /\ r.actual_passed = rerun.passed
          /\ r.actual_failed = rerun.failed
          /\ ~r.passed =>
                /\ Contains("expected " \o ToString(r.expected_passed) \o " pass", r.reason)
                /\ Contains("/ " \o ToString(r.expected_failed) \o " fail, got", r.reason)
                /\ Contains("got " \o ToString(r.actual_passed) \o " pass", r.reason)
                /\ EndsWith(r.reason, "/ " \o ToString(r.actual_failed) \o " fail")

\* C8 witness: a replay on overriding manifests that drifted from the
\* stored counts
C8_Witness ==
    /\ pc = "replayed"
    /\ replayed.override # None
    /\ ~replayed.result.passed
    /\ replayed.result.actual_passed # replayed.result.expected_passed
    /\ replayed.result.expected_passed > 0

(***************************************************************************)
(* Wire forms (nomai/intents.py to_dict / from_dict).  A wire value is a   *)
(* Python value: None, Num, Str, Bool, List, Dict (string-keyed mapping)   *)
(* or Obj (a mapping kept as its ordered items).                           *)
(***************************************************************************)
Obj(items) == [kind |-> "obj", items |-> items]
IsObj(v) == v.kind = "obj"

\* bool(v)
PyBool(v) ==
    CASE v.kind = "none" -> FALSE
      [] v.kind = "bool" -> v.b
      [] v.kind = "num" -> v.n # 0
      [] v.kind = "str" -> v.s # ""
      [] v.kind = "list" -> Len(v.xs) > 0
      [] v.kind = "obj" -> Len(v.items) > 0
      [] OTHER -> DOMAIN v.d # {}

\* int(v) is defined on numbers and on numerals
CanInt(v) == IsNum(v) \/ (IsStr(v) /\ IsNumeral(v.s))
IntOf(v) == IF IsNum(v) THEN v.n ELSE NumeralVal(v.s)

\* str(v) if v is not None else None
OptPyStr(v) == IF v # None THEN Str(PyStr(v)) ELSE None

AnyRaised(xs) == \E i \in 1..Len(xs) : IsRaised(xs[i])
FirstRaised(xs) == xs[Min({i \in 1..Len(xs) : IsRaised(xs[i])})]

TriggerTypes ==
    {"collision", "state_transition", "aggregate_condition", "component_condition",
     "event_occurred", "tick_reached", "and", "or", "after"}

ExpectedTypes ==
    {"component_changed", "entity_despawned", "aggregate_changed", "in_state",
     "event_emitted", "value_relation", "all", "any"}

IntentKinds == {"entity", "behavior", "metric", "invariant"}

\* Trigger.to_dict and Expected.to_dict have the same body
RECURSIVE Node_to_dict(_)
Node_to_dict(node) ==
    Dict([type |-> Str(node.type),
          params |-> Dict(node.params),
          children |-> List([i \in 1..Len(node.children)
                               |-> Node_to_dict(node.children[i])])])

Trigger_to_dict(trigger) == Node_to_dict(trigger)
Expected_to_dict(expected) == Node_to_dict(expected)

\* a reader that drops the children
Node_from_dict_flat(data, types) ==
    [type |-> data.d.type.s, params |-> data.d.params.d, children |-> <<>>]

\* a reader that leaves out the children it cannot read
RECURSIVE Node_from_dict_skipping_unknown(_, _)
Node_from_dict_skipping_unknown(data, types) ==
    LET raw_children == Get(data.d, "children", List(<<>>))
        children == IF IsList(raw_children)
                    THEN [i \in 1..Len(raw_children.xs)
                            |-> Node_from_dict_skipping_unknown(raw_children.xs[i], types)]
                    ELSE <<>>
    IN IF PyStr(Get(data.d, "type", Str(""))) \notin types THEN Raise("ValueError")
       ELSE [type |-> PyStr(data.d.type), params |-> NoParams,
             children |-> SelectSeq(children, LAMBDA c : ~IsRaised(c))]

\* Trigger.from_dict and Expected.from_dict differ in the enum they read
RECURSIVE Node_from_dict(_, _)
Node_from_dict(data, types) ==
    IF ~IsDict(data) THEN Raise("AttributeError")
    ELSE
    LET raw_type == Get(data.d, "type", Str(""))
        raw_params == Get(data.d, "params", Dict(NoParams))
        raw_children == Get(data.d, "children", List(<<>>))
        params == IF IsDict(raw_params) THEN raw_params.d ELSE NoParams
        children == IF IsList(raw_children)
                    THEN [i \in 1..Len(raw_children.xs)
                            |-> Node_from_dict(raw_children.xs[i], types)]
                    ELSE <<>>
    IN IF PyStr(raw_type) \notin types THEN Raise("ValueError")
       ELSE IF AnyRaised(children) THEN FirstRaised(children)
       ELSE [type |-> PyStr(raw_type), params |-> params, children |-> children]

Trigger_from_dict(data) == Node_from_dict(data, TriggerTypes)
Expected_from_dict(data) == Node_from_dict(data, ExpectedTypes)

Merge(f, g) == [k \in DOMAIN f \cup DOMAIN g |-> IF k \in DOMAIN g THEN g[k] ELSE f[k]]

StrList(xs) == List([i \in 1..Len(xs) |-> Str(xs[i])])

IntentSpec_to_dict(intent) ==
    LET result == [name |-> Str(intent.name), kind |-> Str(intent.kind),
                   description |-> Str(intent.description)]
    IN Dict(
       CASE intent.kind = "entity" ->
              Merge(result,
                    [entity_type |-> intent.entity_type,
                     entity_role |-> intent.entity_role,
                     must_exist |-> Bool(intent.must_exist),
                     must_be_visible |-> Bool(intent.must_be_visible),
                     required_components |-> StrList(intent.required_components)])
         [] intent.kind = "behavior" ->
              Merge(result,
                    [trigger |-> IF intent.trigger # None
                                 THEN Trigger_to_dict(intent.trigger) ELSE None,
                     expected |-> IF intent.expected # None
                                  THEN Expected_to_dict(intent.expected) ELSE None,
                     timeout_ticks |-> Num(intent.timeout_ticks)])
         [] intent.kind = "metric" ->
              Merge(result,
                    [metric_entity |-> intent.metric_entity,
                     metric_component |-> intent.metric_component,
                     metric_field |-> intent.metric_field,
                     metric_range |-> IF intent.metric_range # None
                                      THEN List(<<Num(intent.metric_range.lo),
                                                  Num(intent.metric_range.hi)>>)
                                      ELSE None])
         [] intent.kind = "invariant" -> Merge(result, [condition |-> intent.condition])
         [] OTHER -> result)

IntentSpec_from_dict(data) ==
    IF {"kind", "name", "description"} \ DOMAIN data.d # {} THEN Raise("KeyError")
    ELSE IF PyStr(data.d.kind) \notin IntentKinds THEN Raise("ValueError")
    ELSE
    LET kind == PyStr(data.d.kind)
        spec == [IntentSpec(PyStr(data.d.name), kind)
                    EXCEPT !.description = PyStr(data.d.description)]
    IN CASE kind = "entity" ->
              LET raw_comps == Get(data.d, "required_components", List(<<>>))
              IN [spec EXCEPT
                    !.entity_type = OptPyStr(Get(data.d, "entity_type", None)),
                    !.entity_role = OptPyStr(Get(data.d, "entity_role", None)),
                    !.must_exist = PyBool(Get(data.d, "must_exist", Bool(TRUE))),
                    !.must_be_visible = PyBool(Get(data.d, "must_be_visible", Bool(TRUE))),
                    !.required_components =
                        IF IsList(raw_comps)
                        THEN [i \in 1..Len(raw_comps.xs) |-> PyStr(raw_comps.xs[i])]
                        ELSE <<>>]
         [] kind = "behavior" ->
              LET raw_trigger == Get(data.d, "trigger", None)
                  raw_expected == Get(data.d, "expected", None)
                  raw_timeout == Get(data.d, "timeout_ticks", Num(DefaultTimeout))
                  trigger == IF IsDict(raw_trigger)
                             THEN Trigger_from_dict(raw_trigger) ELSE None
                  expected == IF IsDict(raw_expected)
                              THEN Expected_from_dict(raw_expected) ELSE None
              IN IF IsRaised(trigger) THEN trigger
                 ELSE IF IsRaised(expected) THEN expected
                 ELSE IF ~CanInt(raw_timeout) THEN Raise("ValueError")
                 ELSE [spec EXCEPT !.trigger = trigger, !.expected = expected,
                                   !.timeout_ticks = IntOf(raw_timeout)]
         [] kind = "metric" ->
              LET raw_range == Get(data.d, "metric_range", None)
              IN IF IsList(raw_range) /\ Len(raw_range.xs) = 2
                    /\ ~(CanInt(raw_range.xs[1]) /\ CanInt(raw_range.xs[2]))
                 THEN Raise("ValueError")
                 ELSE [spec EXCEPT
                         !.metric_entity = OptPyStr(Get(data.d, "metric_entity", None)),
                         !.metric_component = OptPyStr(Get(data.d, "metric_component", None)),
                         !.metric_field = OptPyStr(Get(data.d, "metric_field", None)),
                         !.metric_range =
                             IF IsList(raw_range) /\ Len(raw_range.xs) = 2
                             THEN Range(IntOf(raw_range.xs[1]), IntOf(raw_range.xs[2]))
                             ELSE None]
         [] OTHER -> [spec EXCEPT !.condition = OptPyStr(Get(data.d, "condition", None))]

VerificationSuite_to_dict(suite) ==
    Dict([name |-> Str(suite.name), description |-> Str(suite.description),
          intents |-> List([i \in 1..Len(suite.intents)
                              |-> IntentSpec_to_dict(suite.intents[i])])])

VerificationSuite_from_dict(data) ==
    LET raw_intents == Get(data.d, "intents", List(<<>>))
        intents == IF IsList(raw_intents)
                   THEN [i \in 1..Len(raw_intents.xs)
                           |-> IntentSpec_from_dict(raw_intents.xs[i])]
                   ELSE <<>>
    IN IF AnyRaised(intents) THEN FirstRaised(intents)
       ELSE IF {"name", "description"} \ DOMAIN data.d # {} THEN Raise("KeyError")
       ELSE [name |-> PyStr(data.d.name), description |-> PyStr(data.d.description),
             intents |-> intents]

(***************************************************************************)
(* Causal reasons and ComponentChange wire forms (nomai/manifest.py).      *)
(* json.loads / json.dumps are modelled on integers, true, false, null,    *)
(* strings without escapes, and flat arrays and objects of those whose     *)
(* strings hold no comma or colon.                                         *)
(***************************************************************************)
Quote == "\""

IsJsonInt(t) ==
    LET digits == IF StartsWith(t, "-") THEN Slice(t, 2, Len(t)) ELSE t
    IN AllDigits(digits) /\ (Len(digits) = 1 \/ Char(digits, 1) # "0")

IsJsonString(t) ==
    /\ Len(t) >= 2
    /\ Char(t, 1) = Quote /\ Char(t, Len(t)) = Quote
    /\ \A i \in 2..(Len(t) - 1) : Char(t, i) \notin {Quote, "\\"}

IsJsonScalar(t) == IsJsonInt(t) \/ IsJsonString(t) \/ t \in {"true", "false", "null"}

json_scalar(t) ==
    CASE IsJsonInt(t) -> Num(NumeralVal(t))
      [] IsJsonString(t) -> Str(Slice(t, 2, Len(t) - 1))
      [] t = "true" -> Bool(TRUE)
      [] t = "false" -> Bool(FALSE)
      [] OTHER -> None

\* a "key": value member of an object
IsJsonMember(m) ==
    LET kv == SplitOn(m, ":")
    IN Len(kv) = 2 /\ IsJsonString(Strip(kv[1])) /\ IsJsonScalar(Strip(kv[2]))

json_member(m) ==
    LET kv == SplitOn(m, ":")
    IN <<json_scalar(Strip(kv[1])).s, json_scalar(Strip(kv[2]))>>

json_loads(s) ==
    LET t == Strip(s)
        inner == Strip(Slice(t, 2, Len(t) - 1))
        parts == SplitOn(inner, ",")
    IN IF IsJsonScalar(t) THEN json_scalar(t)
       ELSE IF Len(t) >= 2 /\ Char(t, 1) = "[" /\ Char(t, Len(t)) = "]"
       THEN IF inner = "" THEN List(<<>>)
            ELSE IF \A i \in 1..Len(parts) : IsJsonScalar(Strip(parts[i]))
            THEN List([i \in 1..Len(parts) |-> json_scalar(Strip(parts[i]))])
            ELSE Raise("JSONDecodeError")
       ELSE IF Len(t) >= 2 /\ Char(t, 1) = "{" /\ Char(t, Len(t)) = "}"
       THEN IF inner = "" THEN Obj(<<>>)
            ELSE IF \A i \in 1..Len(parts) : IsJsonMember(parts[i])
            THEN Obj([i \in 1..Len(parts) |-> json_member(parts[i])])
            ELSE Raise("JSONDecodeError")
       ELSE Raise("JSONDecodeError")

json_dumps_scalar(v) ==
    CASE v.kind = "num" -> ToString(v.n)
      [] v.kind = "str" -> Quote \o v.s \o Quote
      [] v.kind = "bool" -> (IF v.b THEN "true" ELSE "false")
      [] OTHER -> "null"

RECURSIVE Join(_, _)
Join(xs, sep) ==
    IF Len(xs) = 0 THEN ""
    ELSE IF Len(xs) = 1 THEN xs[1]
    ELSE xs[1] \o sep \o Join(Tail(xs), sep)

\* json.dumps(v, separators=(item_sep, key_sep))
json_dumps(v, item_sep, key_sep) ==
    CASE v.kind = "list" ->
           "[" \o Join([i \in 1..Len(v.xs) |-> json_dumps_scalar(v.xs[i])], item_sep) \o "]"
      [] v.kind = "obj" ->
           "{" \o Join([i \in 1..Len(v.items)
                          |-> Quote \o v.items[i][1] \o Quote \o key_sep
                              \o json_dumps_scalar(v.items[i][2])], item_sep) \o "}"
      [] OTHER -> json_dumps_scalar(v)

\* a reader that writes structured payloads with json.dumps's default separators
parse_reason_spaced(raw) ==
    LET key == raw.items[1][1]
        value == raw.items[1][2]
    IN IF IsStr(value) THEN <<key, value.s>>
       ELSE IF IsList(value) \/ IsObj(value) THEN <<key, json_dumps(value, ", ", ": ")>>
       ELSE <<key, PyStr(value)>>

\* _parse_reason: (reason_type, reason_detail) of a wire reason
parse_reason(raw) ==
    IF IsObj(raw) /\ Len(raw.items) > 0
    THEN LET key == raw.items[1][1]
             value == raw.items[1][2]
         IN IF IsStr(value) THEN <<key, value.s>>
            ELSE IF IsList(value) \/ IsObj(value) THEN <<key, json_dumps(value, ",", ":")>>
            ELSE <<key, PyStr(value)>>
    ELSE IF IsStr(raw) THEN <<"Unknown", raw.s>>
    ELSE IF IsObj(raw) THEN <<"Unknown", "{}">>
    ELSE <<"Unknown", PyStr(raw)>>

StructuredReasons == {"CollisionResponse", "StateTransition"}

\* _reason_to_dict: the wire reason of a (reason_type, reason_detail) pair
reason_to_dict(reason_type, reason_detail) ==
    IF reason_type \in StructuredReasons /\ ~IsRaised(json_loads(reason_detail))
    THEN Obj(<< <<reason_type, json_loads(reason_detail)>> >>)
    ELSE Obj(<< <<reason_type, Str(reason_detail)>> >>)

\* _parse_entity_id and _parse_system_id: a plain integer, the first
\* integer of a {"0": value} wrapper, or int(raw)
CanParseId(raw) ==
    IsNum(raw) \/ (IsObj(raw) /\ \E i \in 1..Len(raw.items) : IsNum(raw.items[i][2]))
       \/ (~IsObj(raw) /\ CanInt(raw))

parse_entity_id(raw) ==
    IF IsNum(raw) THEN raw.n
    ELSE IF IsObj(raw)
    THEN raw.items[Min({i \in 1..Len(raw.items) : IsNum(raw.items[i][2])})][2].n
    ELSE IntOf(raw)

parse_system_id(raw) == parse_entity_id(raw)

ComponentChange_to_dict(c) ==
    Dict([entity_id |-> Num(c.entity_id),
          component_type_name |-> Str(c.component_type_name),
          old_value |-> c.old_value,
          new_value |-> c.new_value,
          changed_by |-> Num(c.changed_by_system),
          reason |-> reason_to_dict(c.reason_type, c.reason_detail),
          command_index |-> Num(c.command_index),
          tick |-> Num(c.tick)])

ComponentChange_from_dict(data) ==
    IF {"entity_id", "component_type_name", "changed_by", "command_index", "tick"}
          \ DOMAIN data.d # {}
    THEN Raise("KeyError")
    ELSE IF \/ \E k \in {"entity_id", "changed_by"} : ~CanParseId(data.d[k])
            \/ \E k \in {"command_index", "tick"} : ~CanInt(data.d[k])
    THEN Raise("ValueError")
    ELSE
    LET reason == parse_reason(Get(data.d, "reason", Obj(<<>>)))
    IN [entity_id |-> parse_entity_id(data.d.entity_id),
        component_type_name |-> PyStr(data.d.component_type_name),
        old_value |-> Get(data.d, "old_value", None),
        new_value |-> Get(data.d, "new_value", None),
        changed_by_system |-> parse_system_id(data.d.changed_by),
        reason_type |-> reason[1],
        reason_detail |-> reason[2],
        command_index |-> IntOf(data.d.command_index),
        tick |-> IntOf(data.d.tick)]

(***************************************************************************)
(* SpecWire: a value is written to its wire form, and the wire form is     *)
(* read back.                                                              *)
(***************************************************************************)
WireTriggers ==
    NonAfterTriggers
    \cup {after(collision("ball", "brick"), 1),
          state_transition("game", "playing", "won"),
          aggregate_condition("brick", "==", 0),
          event_occurred("collision", List(<<Str("ball")>>)),
          or_(<<>>),
          and_(<<or_(<<>>), after(and_(<<tick_reached(FirstTick)>>), 0)>>)}

WireExpecteds ==
    Expecteds
    \cup {component_changed("ball", "velocity", Str("dx"), Num(5)),
          aggregate_changed("brick", "<", 1),
          entity_despawned("brick"),
          in_state("game", "game_state", "won"),
          event_emitted("collision", List(<<Str("ball"), Str("brick")>>)),
          value_relation("ball", "velocity", "dx", "sign_flipped", 10),
          any_(<<>>),
          all_(<<any_(<<entity_despawned("brick")>>), all_(<<>>)>>)}

\* intents as the constructors give them, optional fields null included
KindIntents ==
    {EntityIntent("paddle_exists", Str("paddle"), Str("character")),
     EntityIntent("ball_exists", Str("ball"), None),
     [EntityIntent("hud", None, None)
         EXCEPT !.must_be_visible = FALSE, !.required_components = <<"position", "sprite">>],
     BehaviorIntent("ball_bounces", collision("ball", "brick"), BounceExpected, MaxTimeout),
     BehaviorIntent("clears", and_(<<or_(<<>>), after(tick_reached(FirstTick), 0)>>),
                    all_(<<any_(<<>>), entity_despawned("brick")>>), DefaultTimeout),
     BehaviorIntent("undefined", None, None, DefaultTimeout),
     MetricIntent("speed_bounded", "ball", "velocity", "dx", Range(-10, 10)),
     [IntentSpec("unbounded", "metric") EXCEPT !.metric_component = Str("velocity")],
     InvariantIntent("bricks_remain", "aggregate:brick > 0"),
     IntentSpec("unconditional", "invariant")}

\* intents that also carry a field of another kind's group
MixedIntents ==
    {[EntityIntent("paddle_exists", Str("paddle"), None) EXCEPT !.timeout_ticks = MaxTimeout],
     [InvariantIntent("bricks_remain", "aggregate:brick > 0")
         EXCEPT !.entity_role = Str("brick")],
     [BehaviorIntent("ball_bounces", collision("ball", "brick"), BounceExpected, MaxTimeout)
         EXCEPT !.condition = Str("entity_count > 0")],
     [MetricIntent("speed_bounded", "ball", "velocity", "dx", Range(-10, 10))
         EXCEPT !.must_exist = FALSE]}

WireIntents == KindIntents \cup MixedIntents

WireSuites ==
    {VerificationSuite("suite", intents) : intents \in SeqsUpTo(WireIntents, MaxSuiteLen)}

ReasonTypes ==
    {"GameRule", "PlayerInput", "Timer", "SystemInternal",
     "CollisionResponse", "StateTransition"}

ReasonDetails ==
    {"", "ball", "ball:brick", "move_right",
     "[0,1]", "[0, 1]", "[]", "[ ]", "7", "true", "null",
     "\"hit\"", "{\"from\":\"a\",\"to\":\"b\"}", "{\"from\": \"a\", \"to\": \"b\"}"}

WireChanges ==
    {ComponentChange(1, "velocity", Dict([dx |-> Num(-5)]), Dict([dx |-> Num(5)]),
                     reason_type, reason_detail, FirstTick) :
        reason_type \in ReasonTypes, reason_detail \in ReasonDetails}

\* cls.to_dict of the class named by type
to_dict(type, value) ==
    CASE type = "Trigger" -> Trigger_to_dict(value)
      [] type = "Expected" -> Expected_to_dict(value)
      [] type = "IntentSpec" -> IntentSpec_to_dict(value)
      [] type = "VerificationSuite" -> VerificationSuite_to_dict(value)
      [] type = "ComponentChange" -> ComponentChange_to_dict(value)

\* cls.from_dict of the class named by type
from_dict(type, data) ==
    CASE type = "Trigger" -> Trigger_from_dict(data)
      [] type = "Expected" -> Expected_from_dict(data)
      [] type = "IntentSpec" -> IntentSpec_from_dict(data)
      [] type = "VerificationSuite" -> VerificationSuite_from_dict(data)
      [] type = "ComponentChange" -> ComponentChange_from_dict(data)

Write(type, value) ==
    /\ pc = "sim"
    /\ wire' = [type |-> type, value |-> value, data |-> to_dict(type, value), back |-> None]
    /\ pc' = "written"
    /\ UNCHANGED <<manifests, call, report, regression, replayed>>

Read(type) ==
    /\ pc = "written"
    /\ wire.type = type
    /\ wire' = [wire EXCEPT !.back = from_dict(type, wire.data)]
    /\ pc' = "read"
    /\ UNCHANGED <<manifests, call, report, regression, replayed>>

TriggerToDict == \E v \in WireTriggers : Write("Trigger", v)
TriggerFromDict == Read("Trigger")

ExpectedToDict == \E v \in WireExpecteds : Write("Expected", v)
ExpectedFromDict == Read("Expected")

IntentSpecToDict == \E v \in WireIntents : Write("IntentSpec", v)
IntentSpecFromDict == Read("IntentSpec")

SuiteToDict == \E v \in WireSuites : Write("VerificationSuite", v)
SuiteFromDict == Read("VerificationSuite")

ChangeToDict == \E v \in WireChanges : Write("ComponentChange", v)
ChangeFromDict == Read("ComponentChange")

NextWire ==
    \/ TriggerToDict \/ TriggerFromDict
    \/ ExpectedToDict \/ ExpectedFromDict
    \/ IntentSpecToDict \/ IntentSpecFromDict
    \/ SuiteToDict \/ SuiteFromDict
    \/ ChangeToDict \/ ChangeFromDict

SpecWire == Init /\ [][NextWire]_vars

(***************************************************************************)
(* Properties of the wire forms (SpecWire).                                *)
(***************************************************************************)
HasRead(types) == pc = "read" /\ wire.type \in types

\* the fields of each kind's group
KindFields(kind) ==
    CASE kind = "entity" -> {"entity_type", "entity_role", "must_exist", "must_be_visible",
                             "required_components"}
      [] kind = "behavior" -> {"trigger", "expected", "timeout_ticks"}
      [] kind = "metric" -> {"metric_entity", "metric_component", "metric_field",
                             "metric_range"}
      [] OTHER -> {"condition"}

\* every field outside the intent's own group holds its default
OnlyKindFields(intent) ==
    \A f \in DOMAIN intent \ ({"name", "kind", "description"} \cup KindFields(intent.kind)) :
       intent[f] = IntentSpec(intent.name, intent.kind)[f]

OnlyKindFieldsIn(value) ==
    IF wire.type = "IntentSpec" THEN OnlyKindFields(value)
    ELSE \A i \in 1..Len(value.intents) : OnlyKindFields(value.intents[i])

\* C9 (as amended): from_dict(to_dict(v)) == v for every Trigger and
\* Expected, and for every IntentSpec and VerificationSuite whose intents
\* carry non-default values only in the fields of their own kind.
C9_IntentWireRoundTrip ==
    /\ HasRead({"Trigger", "Expected"}) => wire.back = wire.value
    /\ (HasRead({"IntentSpec", "VerificationSuite"}) /\ OnlyKindFieldsIn(wire.value))
          => wire.back = wire.value

\* C9 witness: a suite of two intents of different kinds, one a Behavior
\* with a composite trigger tree holding an After and an empty Or, read back
C9_Witness ==
    /\ HasRead({"VerificationSuite"})
    /\ OnlyKindFieldsIn(wire.value)
    /\ Len(wire.value.intents) = 2
    /\ wire.value.intents[1].kind # wire.value.intents[2].kind
    /\ \E i \in 1..2 :
          /\ wire.value.intents[i].trigger # None
          /\ wire.value.intents[i].trigger.type = "and"
          /\ Len(wire.value.intents[i].trigger.children) = 2
    /\ wire.back = wire.value

\* C9 as stated: every IntentSpec and VerificationSuite value round-trips
C9_AsStated ==
    HasRead({"Trigger", "Expected", "IntentSpec", "VerificationSuite"})
       => wire.back = wire.value

\* the reason_detail texts _parse_reason writes for a structured payload:
\* JSON text of a sequence or mapping without whitespace
IsCompactJson(detail) ==
    /\ StartsWith(detail, "[") \/ StartsWith(detail, "{")
    /\ ~Contains(" ", detail)
    /\ ~IsRaised(json_loads(detail))

RoundTrippable(c) ==
    \/ c.reason_type \notin StructuredReasons
    \/ IsRaised(json_loads(c.reason_detail))
    \/ IsCompactJson(c.reason_detail)

\* C10 (as amended): ComponentChange.from_dict(c.to_dict()) == c for every
\* c whose reason_type is a scalar-payload variant, and for every c of a
\* structured-payload variant (CollisionResponse, StateTransition) whose
\* reason_detail is either no JSON text at all or the compact JSON text of
\* a sequence or mapping; a scalar-payload reason is written as
\* {variant: detail-string}, a compact structured one as {variant:
\* sequence-or-mapping}.
C10_ManifestWireRoundTrip ==
    (HasRead({"ComponentChange"}) /\ RoundTrippable(wire.value)) =>
       LET c == wire.value
           written == wire.data.d.reason.items[1]
       IN /\ wire.back = c
          /\ written[1] = c.reason_type
          /\ c.reason_type \notin StructuredReasons => written[2] = Str(c.reason_detail)
          /\ (c.reason_type \in StructuredReasons /\ IsCompactJson(c.reason_detail))
                => written[2].kind \in {"list", "obj"}

\* C10 witness: a CollisionResponse change whose detail is the compact text
\* of a two-element sequence, written as a sequence and read back
C10_Witness ==
    /\ HasRead({"ComponentChange"})
    /\ wire.value.reason_type = "CollisionResponse"
    /\ wire.value.reason_detail = "[0,1]"
    /\ wire.data.d.reason.items[1][2] = List(<<Num(0), Num(1)>>)
    /\ wire.back = wire.value

\* C10 as stated: every ComponentChange round-trips whatever reason_type
\* and reason_detail it carries
C10_AsStated == HasRead({"ComponentChange"}) => wire.back = wire.value

(***************************************************************************)
(* SpecCheck: one trigger or one expected outcome evaluated on the         *)
(* manifest of one tick (VerificationEngine._check_trigger and             *)
(* _check_expected), over the manifests, triggers and outcomes below.      *)
(***************************************************************************)
CheckTicks == 1

CheckShapes ==
    {"quiet", "hit", "bounce", "stall", "same", "fresh", "same_then_bounce",
     "wall_hit", "split_hits", "shout_hit", "scored",
     "cleared", "despawn_bare", "despawn_unlinked", "despawn_identity", "despawn_reason",
     "launch", "reflect", "nudge", "surge"}

CheckExpecteds ==
    {component_changed("ball", "velocity", Str("dx"), None),
     component_changed("ball", "velocity", Str("dy"), None),
     component_changed("ball", "velocity", Str("dx"), Num(5)),
     component_changed("ball", "velocity", Str("dz"), None),
     component_changed("ball", "position", Str("dx"), None),
     component_changed("ball", "velocity", None, None),
     entity_despawned("brick"), entity_despawned("Ball"), entity_despawned("paddle"),
     entity_despawned("CHARACTER"), entity_despawned("100"), entity_despawned("ghost"),
     value_relation("ball", "velocity", "dx", "magnitude_preserved", 0),
     value_relation("ball", "velocity", "dx", "magnitude_preserved", DefaultTolerance),
     value_relation("ball", "velocity", "dx", "magnitude_preserved", 2 * DefaultTolerance),
     value_relation("ball", "velocity", "dx", "sign_flipped", DefaultTolerance)}

CheckTriggers ==
    {collision("ball", "brick"), collision("brick", "ball"), collision("Ball", "Brick"),
     collision("ball", "paddle"), collision("ball", "ball"),
     event_occurred("collision", None), tick_reached(FirstTick)}

TickC == Emit(CheckShapes, CheckTicks)

\* self._check_trigger(trigger, manifest) on the manifest of the last tick
DoCheckTrigger(trigger) ==
    /\ pc = "sim"
    /\ Len(manifests) > 0
    /\ call' = [suite |-> None, trigger |-> trigger, manifest |-> manifests[Len(manifests)]]
    /\ report' = [fired |-> check_trigger(trigger, manifests[Len(manifests)])]
    /\ pc' = "trigger_checked"
    /\ UNCHANGED <<manifests, regression, replayed, wire>>

\* self._check_expected(expected, manifest) on the manifest of the last tick
DoCheckExpected(expected) ==
    /\ pc = "sim"
    /\ Len(manifests) > 0
    /\ call' = [suite |-> None, expected |-> expected, manifest |-> manifests[Len(manifests)]]
    /\ report' = [held |-> check_expected(expected, manifests[Len(manifests)])]
    /\ pc' = "expected_checked"
    /\ UNCHANGED <<manifests, regression, replayed, wire>>

CheckTrigger == \E trigger \in CheckTriggers : DoCheckTrigger(trigger)

CheckExpected == \E expected \in CheckExpecteds : DoCheckExpected(expected)

NextC == TickC \/ CheckTrigger \/ CheckExpected

SpecCheck == Init /\ [][NextC]_vars

(***************************************************************************)
(* Properties of the per-manifest evaluators (SpecCheck).                  *)
(***************************************************************************)
\* the changes of the checked manifest
CheckedChanges ==
    {call.manifest.component_changes[i] : i \in 1..Len(call.manifest.component_changes)}

ExpectedChecked(type) == pc = "expected_checked" /\ call.expected.type = type

\* the changes a ComponentChanged outcome is about: those of its component
\* (and of its entity, when one is named)
MatchingChanges ==
    {c \in CheckedChanges :
        /\ c.component_type_name = call.expected.params.component.s
        /\ \/ call.expected.params.entity.s = ""
           \/ matches_entity(c, call.expected.params.entity.s)}

FieldOf(value, f) == IF IsDict(value) /\ f \in DOMAIN value.d THEN value.d[f] ELSE None

\* C11: ComponentChanged(e, c, f) holds on a manifest only if some matching
\* change has a new value of field f that exists and either has no old
\* value of f or differs from it; so it does not hold when every matching
\* change has old[f] = new[f].
C11_ComponentChangedNeedsDelta ==
    (ExpectedChecked("component_changed") /\ "field" \in DOMAIN call.expected.params
       /\ report.held)
    => \E c \in MatchingChanges :
          LET f == call.expected.params.field.s
          IN /\ FieldOf(c.new_value, f) # None
             /\ \/ FieldOf(c.old_value, f) = None
                \/ FieldOf(c.old_value, f) # FieldOf(c.new_value, f)

\* a manifest whose only matching change kept the field's value was checked
\* and the outcome did not hold
C11_Witness ==
    /\ ExpectedChecked("component_changed") /\ "field" \in DOMAIN call.expected.params
    /\ MatchingChanges # {}
    /\ \A c \in MatchingChanges :
          /\ FieldOf(c.old_value, call.expected.params.field.s) # None
          /\ FieldOf(c.old_value, call.expected.params.field.s)
                = FieldOf(c.new_value, call.expected.params.field.s)
    /\ ~report.held


\* the events of the checked manifest
CheckedEvents == {call.manifest.events[i] : i \in 1..Len(call.manifest.events)}

TriggerChecked(type) == pc = "trigger_checked" /\ call.trigger.type = type

\* C12 (as amended): a Collision(a, b) trigger fires on a manifest if and
\* only if some single event of type "collision" has a lower-cased
\* reason_detail that contains both the lower-cased a and the lower-cased b.
C12_CollisionNeedsBothNames ==
    TriggerChecked("collision")
    => (report.fired
        <=> \E e \in CheckedEvents :
               /\ e.event_type = "collision"
               /\ Contains(Lower(call.trigger.params.entity_a.s), Lower(e.reason_detail))
               /\ Contains(Lower(call.trigger.params.entity_b.s), Lower(e.reason_detail)))

\* a manifest with collision events, each holding one of the two names and
\* none holding both, was checked and the trigger did not fire
C12_Witness ==
    /\ TriggerChecked("collision")
    /\ \E e \in CheckedEvents :
          /\ e.event_type = "collision"
          /\ Contains(Lower(call.trigger.params.entity_a.s), Lower(e.reason_detail))
    /\ \A e \in CheckedEvents :
          e.event_type = "collision"
          => ~(/\ Contains(Lower(call.trigger.params.entity_a.s), Lower(e.reason_detail))
               /\ Contains(Lower(call.trigger.params.entity_b.s), Lower(e.reason_detail)))
    /\ ~report.fired

\* C12 as stated: the lower-cased reason_detail contains a and b as written
C12_AsStated ==
    TriggerChecked("collision")
    => (report.fired
        <=> \E e \in CheckedEvents :
               /\ e.event_type = "collision"
               /\ Contains(call.trigger.params.entity_a.s, Lower(e.reason_detail))
               /\ Contains(call.trigger.params.entity_b.s, Lower(e.reason_detail)))

\* the ids the checked manifest despawns
CheckedDespawns ==
    {call.manifest.entity_despawns[i] : i \in 1..Len(call.manifest.entity_despawns)}

\* the text of an event (its description and its reason_detail) names e
EventNames(event, e) ==
    Contains(Lower(e), Lower(event.description \o " " \o event.reason_detail))

\* evidence in the checked manifest that links a despawn to e
DespawnLinkedTo(e) ==
    \/ \E ev \in CheckedEvents :
          /\ EventNames(ev, e)
          /\ \E k \in 1..Len(ev.involved_entities) : ev.involved_entities[k] \in CheckedDespawns
    \/ \E c \in CheckedChanges :
          /\ c.entity_id \in CheckedDespawns
          /\ c.component_type_name = "identity"
          /\ \/ Lower(PyStr(FieldOf(c.new_value, "role"))) = Lower(e)
             \/ Lower(PyStr(FieldOf(c.new_value, "entity_type"))) = Lower(e)
    \/ \E c \in CheckedChanges :
          c.entity_id \in CheckedDespawns /\ Contains(Lower(e), Lower(c.reason_detail))
    \/ \E id \in CheckedDespawns : ToString(id) = e

\* C13: EntityDespawned(e) holds on a manifest only if the manifest despawns
\* something and evidence in that same manifest links a despawn to e; a
\* manifest with despawns but no such link never satisfies it.
C13_DespawnNeedsLink ==
    (ExpectedChecked("entity_despawned") /\ report.held)
    => CheckedDespawns # {} /\ DespawnLinkedTo(call.expected.params.entity.s)

\* a manifest with despawns and no link to the name was checked and the
\* outcome did not hold
C13_Witness ==
    /\ ExpectedChecked("entity_despawned")
    /\ CheckedDespawns # {}
    /\ ~DespawnLinkedTo(call.expected.params.entity.s)
    /\ ~report.held

\* the numeric (old, new) values of a field in the changes a ValueRelation
\* outcome is about
NumericPairs ==
    {<<FieldOf(c.old_value, call.expected.params.field.s).n,
       FieldOf(c.new_value, call.expected.params.field.s).n>> :
        c \in {m \in MatchingChanges :
                 /\ IsNum(FieldOf(m.old_value, call.expected.params.field.s))
                 /\ IsNum(FieldOf(m.new_value, call.expected.params.field.s))}}

MagnitudeChecked ==
    /\ ExpectedChecked("value_relation")
    /\ call.expected.params.relation.s = "magnitude_preserved"

\* C17 (as amended): ValueRelation with relation magnitude_preserved and
\* tolerance tol (in hundredths) holds on a manifest if and only if some
\* matching change with numeric old and new field values has old # 0 and
\* | |new| - |old| | / |old| <= tol: the magnitudes are compared, so a
\* value that only changes sign preserves its magnitude.
C17_MagnitudePreserved ==
    MagnitudeChecked
    => (report.held
        <=> \E pair \in NumericPairs :
               /\ pair[1] # 0
               /\ Abs(Abs(pair[2]) - Abs(pair[1])) * 100
                     <= call.expected.params.tolerance.n * Abs(pair[1]))

\* a change whose value flips sign and keeps its magnitude within the
\* tolerance was checked and the outcome held
C17_Witness ==
    /\ MagnitudeChecked
    /\ \E pair \in NumericPairs :
          /\ pair[1] * pair[2] < 0
          /\ Abs(Abs(pair[2]) - Abs(pair[1])) * 100
                <= call.expected.params.tolerance.n * Abs(pair[1])
    /\ report.held

\* C17 as stated: old # 0 and |new - old| / |old| <= tol
C17_AsStated ==
    MagnitudeChecked
    => (report.held
        <=> \E pair \in NumericPairs :
               /\ pair[1] # 0
               /\ Abs(pair[2] - pair[1]) * 100
                     <= call.expected.params.tolerance.n * Abs(pair[1]))

(***************************************************************************)
(* SpecRange: one Metric intent or one component_range invariant at a      *)
(* time, over velocity changes that sit on, inside and outside the bounds. *)
(***************************************************************************)
RangeShapes == {"quiet", "bounce", "stall", "nudge", "surge", "reflect"}

\* (min, max) pairs; the last one is inverted
RangeBounds == {<<-5, 5>>, <<0, 11>>, <<5, 5>>, <<-11, 0>>, <<6, 12>>, <<5, 0>>}

RangeCondition(lo, hi) ==
    "component_range:ball.velocity.dx in [" \o ToString(lo) \o ", " \o ToString(hi) \o "]"

RangeIntents ==
    {MetricIntent("metric", "ball", "velocity", "dx", Range(b[1], b[2])) : b \in RangeBounds}
    \cup {InvariantIntent("invariant", RangeCondition(b[1], b[2])) : b \in RangeBounds}

RangeSuites == {VerificationSuite("suite", <<intent>>) : intent \in RangeIntents}

TickR == Emit(RangeShapes, MaxTicks)

VerifyR == \E suite \in RangeSuites : DoVerify(suite, NoEntityIndex)

NextR == TickR \/ VerifyR

SpecRange == Init /\ [][NextR]_vars

(***************************************************************************)
(* Properties of the range evaluators (SpecRange).                         *)
(***************************************************************************)
\* the bounds a range intent declares: the metric_range of a Metric intent,
\* the bracketed pair of a component_range condition
DeclaredBounds(intent) ==
    IF intent.kind = "metric" THEN <<intent.metric_range.lo, intent.metric_range.hi>>
    ELSE LET halves == SplitOn(Slice(intent.condition.s, 1, Len(intent.condition.s) - 1), " in [")
             bounds == SplitOn(halves[2], ", ")
         IN <<NumeralVal(bounds[1]), NumeralVal(bounds[2])>>

\* the numeric dx values of the velocity changes of the ball in the manifests
MeasuredValues ==
    {ChangeAt(manifests, pos).new_value.d.dx.n :
        pos \in {q \in Positions(manifests) :
                   /\ ChangeAt(manifests, q).component_type_name = "velocity"
                   /\ IsDict(ChangeAt(manifests, q).new_value)
                   /\ "dx" \in DOMAIN ChangeAt(manifests, q).new_value.d
                   /\ IsNum(ChangeAt(manifests, q).new_value.d.dx)}}

\* a range intent with min <= max was verified
RangeVerified ==
    /\ pc = "verified"
    /\ DeclaredBounds(TheIntent)[1] <= DeclaredBounds(TheIntent)[2]

\* C14: for a Metric intent with range (min, max), min <= max, values equal
\* to min or to max never fail the intent (it passes when every matching
\* numeric value lies in [min, max]), and a matching numeric value strictly
\* below min or strictly above max makes it fail with an "out of range"
\* reason; the same holds of component_range invariants.
C14_InclusiveBounds ==
    RangeVerified
    => LET lo == DeclaredBounds(TheIntent)[1]
           hi == DeclaredBounds(TheIntent)[2]
       IN /\ (\A v \in MeasuredValues : lo <= v /\ v <= hi) => TheResult.passed
          /\ (\E v \in MeasuredValues : v < lo \/ v > hi)
                => ~TheResult.passed /\ Contains("out of range", TheResult.failure_reason)

\* a Metric intent passed on manifests that measure its minimum or maximum
C14_Witness ==
    /\ RangeVerified
    /\ TheIntent.kind = "metric"
    /\ \E v \in MeasuredValues : v \in {DeclaredBounds(TheIntent)[1], DeclaredBounds(TheIntent)[2]}
    /\ TheResult.passed

(***************************************************************************)
(* SpecBounce: verify() with a physics registry over runs long enough for  *)
(* a bounce to come late after a collision.                                *)
(***************************************************************************)
BounceTicks == 5     \* manifests emitted before the bounce check runs

BounceShapes == {"quiet", "hit", "bounce", "stall", "drop"}

\* ball and brick both bounce; an inelastic ball; a ball moved by the host
BounceRegistries ==
    {Dict((1 :> PhysicsEntityInfo(1, "dynamic", 80, "circle"))
          @@ (100 :> PhysicsEntityInfo(100, "dynamic", 50, "box"))),
     Dict((1 :> PhysicsEntityInfo(1, "dynamic", 0, "circle"))
          @@ (100 :> PhysicsEntityInfo(100, "static", 0, "box"))),
     Dict((1 :> PhysicsEntityInfo(1, "kinematic", 100, "circle"))
          @@ (100 :> PhysicsEntityInfo(100, "static", 0, "box")))}

EmptySuite == VerificationSuite("suite", <<>>)

TickP == Emit(BounceShapes, BounceTicks)

VerifyP == \E physics_registry \in BounceRegistries : DoVerifyPhysics(EmptySuite, physics_registry)

NextP == TickP \/ VerifyP

SpecBounce == Init /\ [][NextP]_vars

(***************************************************************************)
(* Properties of the bounce check (SpecBounce).                            *)
(***************************************************************************)
\* verify() was given a registry and returned a report
PhysicsVerified ==
    /\ pc = "verified"
    /\ "physics_registry" \in DOMAIN call
    /\ call.physics_registry # None

\* the registry says eid is a dynamic body with restitution > 0
Bouncy(eid) ==
    /\ eid \in DOMAIN call.physics_registry.d
    /\ call.physics_registry.d[eid].body_type = "dynamic"
    /\ call.physics_registry.d[eid].restitution > 0

\* the product old.f * new.f of a change, 0 when either is missing
FieldProduct(change, f) ==
    IF IsNum(FieldOf(change.old_value, f)) /\ IsNum(FieldOf(change.new_value, f))
    THEN FieldOf(change.old_value, f).n * FieldOf(change.new_value, f).n
    ELSE 0

\* manifest m holds a velocity change of eid with a sign flip in dx or dy
BouncedAt(m, eid) ==
    \E c \in 1..Len(manifests[m].component_changes) :
       /\ manifests[m].component_changes[c].entity_id = eid
       /\ manifests[m].component_changes[c].component_type_name = "velocity"
       /\ \/ FieldProduct(manifests[m].component_changes[c], "dx") < 0
          \/ FieldProduct(manifests[m].component_changes[c], "dy") < 0

\* the (event, entity) pairs of manifest m that are collisions of eid
CollisionsOf(m, eid) ==
    {p \in (1..Len(manifests[m].events)) \X (1..2) :
        /\ manifests[m].events[p[1]].event_type = "collision"
        /\ p[2] <= Len(manifests[m].events[p[1]].involved_entities)
        /\ manifests[m].events[p[1]].involved_entities[p[2]] = eid}

\* the results named after the bounce of eid and raised at manifest m
BounceResults(m, eid) ==
    {i \in 1..Len(report.results) :
        /\ report.results[i].intent_name
              = "physics_sanity:bounce_response(entity_" \o ToString(eid) \o ")"
        /\ report.results[i].trigger_tick = Num(manifests[m].tick)}

\* eid bounces in one of the manifests m .. m + span - 1
BouncedWithin(m, eid, span) ==
    \E j \in m..PyMin(m + span - 1, Len(manifests)) : BouncedAt(j, eid)

BounceEntities == {1, 100}

\* C15: for every collision event at manifest index i involving a dynamic
\* entity with restitution > 0, no bounce_response failure is produced only
\* if a velocity change on that entity with old.dx*new.dx < 0 or
\* old.dy*new.dy < 0 occurs in one of the four manifests i, i+1, i+2, i+3
\* (the collision tick and the three ticks after it); otherwise exactly one
\* failed result named physics_sanity:bounce_response(entity_N) is produced
\* for that (event, entity) pair.
C15_BounceWithinFourManifests ==
    PhysicsVerified
    => \A m \in 1..Len(manifests), eid \in BounceEntities :
          Bouncy(eid)
          => /\ \A i \in BounceResults(m, eid) : ~report.results[i].passed
             /\ Cardinality(BounceResults(m, eid))
                  = IF BouncedWithin(m, eid, 4) THEN 0
                    ELSE Cardinality(CollisionsOf(m, eid))

\* C15 as the specification words it: the bounce has to come in one of the
\* three manifests i, i+1, i+2.
C15_AsStated ==
    PhysicsVerified
    => \A m \in 1..Len(manifests), eid \in BounceEntities :
          Bouncy(eid)
          => Cardinality(BounceResults(m, eid))
               = IF BouncedWithin(m, eid, 3) THEN 0
                 ELSE Cardinality(CollisionsOf(m, eid))

\* the ball collided, bounced three manifests later and not before, and a
\* later manifest saw a collision that no bounce followed: the first drew
\* no failure, the second drew one
C15_Witness ==
    /\ PhysicsVerified
    /\ Bouncy(1)
    /\ Len(manifests) = BounceTicks
    /\ CollisionsOf(1, 1) # {}
    /\ ~BouncedWithin(1, 1, 3)
    /\ BouncedAt(4, 1)
    /\ BounceResults(1, 1) = {}
    /\ CollisionsOf(5, 1) # {}
    /\ Cardinality(BounceResults(5, 1)) = 1

(***************************************************************************)
(* SpecSanity: verify() on suites of zero to two intents, with and without *)
(* a physics registry, over manifests in which bodies move.                *)
(***************************************************************************)
SanityShapes ==
    {"halt", "rush", "turn", "step", "stride", "leap", "hit", "brick_moved", "mayhem",
     "bounce"}

\* no registry; an empty one; a ball among static bricks; a moving brick
\* and a ball fixed in place
SanityRegistries ==
    {None,
     Dict([e \in {} |-> None]),
     Dict((1 :> PhysicsEntityInfo(1, "dynamic", 80, "circle"))
          @@ (100 :> PhysicsEntityInfo(100, "static", 0, "box"))),
     Dict((1 :> PhysicsEntityInfo(1, "static", 0, "circle"))
          @@ (100 :> PhysicsEntityInfo(100, "dynamic", 50, "box")))}

SanitySuites ==
    {EmptySuite,
     VerificationSuite("suite", <<EntityIntent("paddle_exists", Str("paddle"), Str("character"))>>),
     VerificationSuite("suite",
                       <<MetricIntent("speed_bounded", "ball", "velocity", "dx", Range(-10, 10)),
                         EntityIntent("paddle_exists", Str("paddle"), Str("character"))>>)}

TickS == Emit(SanityShapes, MainTicks)

VerifyS ==
    \E suite \in SanitySuites, physics_registry \in SanityRegistries :
       DoVerifyPhysics(suite, physics_registry)

NextS == TickS \/ VerifyS

SpecSanity == Init /\ [][NextS]_vars

(***************************************************************************)
(* Properties of the sanity checks and of the report (SpecSanity).         *)
(***************************************************************************)
\* the registry says eid is a dynamic body
Dynamic(eid) ==
    /\ eid \in DOMAIN call.physics_registry.d
    /\ call.physics_registry.d[eid].body_type = "dynamic"

\* the position changes of dynamic bodies whose velocity was written before
TrackedMoves ==
    {pos \in Positions(manifests) :
        /\ ChangeAt(manifests, pos).component_type_name = "position"
        /\ Dynamic(ChangeAt(manifests, pos).entity_id)
        /\ DOMAIN last_velocity(manifests, pos, ChangeAt(manifests, pos).entity_id) # {}}

\* the square of a number or of the length of a vector
Square(n) == n * n

SquaredJump(change) ==
    Square(change.new_value.d.x.n - change.old_value.d.x.n)
    + Square(change.new_value.d.y.n - change.old_value.d.y.n)

SquaredSpeed(vel) == Square(Get(vel, "dx", 0)) + Square(Get(vel, "dy", 0))

\* the failed results named after the tunneling of eid at manifest m
TunnelingResults(m, eid) ==
    {i \in 1..Len(report.results) :
        /\ report.results[i].intent_name
              = "physics_sanity:no_tunneling(entity_" \o ToString(eid) \o ")"
        /\ report.results[i].trigger_tick = Num(manifests[m].tick)
        /\ ~report.results[i].passed}

\* C16: for every position change of a dynamic entity whose last known
\* velocity is v, no tunneling failure is reported if and only if
\* |delta position| <= 2 * |v| * dt with dt = 1/60, that is
\* 900 * |delta position|^2 <= |v|^2; every larger jump yields a failed
\* no_tunneling result.
C16_NoTunnelingIffWithinBound ==
    PhysicsVerified
    => \A pos \in TrackedMoves :
          TunnelingResults(pos[1], ChangeAt(manifests, pos).entity_id) = {}
          <=> 900 * SquaredJump(ChangeAt(manifests, pos))
                <= SquaredSpeed(last_velocity(manifests, pos,
                                              ChangeAt(manifests, pos).entity_id))

\* the kind of a result: 0 for the result of an intent, 1 to 3 for the
\* three sanity checks
SanityKind(result) ==
    IF StartsWith(result.intent_name, "physics_sanity:bounce_response(") THEN 1
    ELSE IF StartsWith(result.intent_name, "physics_sanity:static_immobility(") THEN 2
    ELSE IF StartsWith(result.intent_name, "physics_sanity:no_tunneling(") THEN 3
    ELSE 0

\* the violations the three checks find in the manifests
SanityViolations ==
    Len(check_collision_responses(call.physics_registry.d, manifests))
    + Len(check_static_immobility(call.physics_registry.d, manifests))
    + Len(check_no_tunneling(call.physics_registry.d, manifests))

\* C18: when a physics registry is supplied, report.results is the
\* per-intent results in suite order followed by the sanity results
\* (bounce, then static immobility, then tunneling); the sanity checks
\* contribute only failed results, so total_intents is len(suite.intents)
\* plus the number of sanity violations, and a run without violations has
\* exactly len(suite.intents) results.
C18_SanityResultsFollowIntents ==
    PhysicsVerified
    => LET n == Len(call.suite.intents)
           results == report.results
       IN /\ report.total_intents = n + SanityViolations
          /\ Len(results) = n + SanityViolations
          /\ \A i \in 1..n :
                /\ results[i].intent_name = call.suite.intents[i].name
                /\ results[i] = verify_intent(call.suite.intents[i], manifests,
                                              call.entity_index)
          /\ \A i \in (n + 1)..Len(results) :
                ~results[i].passed /\ SanityKind(results[i]) > 0
          /\ \A i, j \in (n + 1)..Len(results) :
                i < j => SanityKind(results[i]) <= SanityKind(results[j])

\* a suite of two intents was verified with a registry and all three checks
\* found a violation
C18_Witness ==
    /\ PhysicsVerified
    /\ Len(call.suite.intents) = 2
    /\ {SanityKind(report.results[i]) : i \in 3..Len(report.results)} = {1, 2, 3}

\* the index in results of the k-th failed result
FailedIndex(results, k) ==
    CHOOSE i \in 1..Len(results) :
       /\ ~results[i].passed
       /\ Cardinality({j \in 1..(i - 1) : ~results[j].passed}) = k - 1

\* C19: every report returned by verify() has total_intents = len(results)
\* = passed + failed, passed = the number of results with passed = true,
\* ticks_examined = len(manifests), all_passed true exactly when
\* failed = 0, and failures() equal to the failed results in results order.
C19_ReportCounts ==
    pc = "verified"
    => /\ report.total_intents = Len(report.results)
       /\ report.total_intents = report.passed + report.failed
       /\ report.passed = Cardinality({i \in 1..Len(report.results) : report.results[i].passed})
       /\ report.ticks_examined = Len(manifests)
       /\ all_passed(report) <=> (\A i \in 1..Len(report.results) : report.results[i].passed)
       /\ Len(failures(report)) = report.failed
       /\ \A k \in 1..Len(failures(report)) :
             failures(report)[k] = report.results[FailedIndex(report.results, k)]

\* a report with passed and failed intent results and sanity failures
C19_Witness ==
    /\ PhysicsVerified
    /\ report.passed > 0
    /\ report.failed > 2
    /\ Len(failures(report)) = report.failed
    /\ Len(manifests) = MainTicks

(***************************************************************************)
(* SpecEntity: one Entity intent at a time, over every role, type, flag    *)
(* and entity index below.                                                 *)
(***************************************************************************)
EntityShapes == {"quiet", "spawn", "bounce", "spawn_ball", "unspawn"}

EntityRoles == {None, Str("paddle"), Str("ghost")}

EntityTypes == {None, Str("character")}

EntityIntents ==
    {[EntityIntent("entity", role, type) EXCEPT
         !.must_exist = flags[1], !.must_be_visible = flags[2],
         !.required_components = required] :
       role \in EntityRoles, type \in EntityTypes,
       flags \in BOOLEAN \X BOOLEAN, required \in {<<>>, <<"position">>}}

EntitySuites == {VerificationSuite("suite", <<intent>>) : intent \in EntityIntents}

\* no index; the paddle indexed as a character, as a prop, without a type
\* and with an empty type
EntityIndexCases ==
    {NoEntityIndex,
     [paddle |-> [entity_type |-> "character"]],
     [paddle |-> [entity_type |-> "prop"]],
     [paddle |-> [role |-> "paddle"]],
     [paddle |-> [entity_type |-> ""]]}

TickE == Emit(EntityShapes, MainTicks)

VerifyE ==
    \E suite \in EntitySuites, entity_index \in EntityIndexCases :
       DoVerify(suite, entity_index)

NextE == TickE \/ VerifyE

SpecEntity == Init /\ [][NextE]_vars

(***************************************************************************)
(* Properties of the entity evaluator (SpecEntity).                        *)
(***************************************************************************)
\* the role the intent declares: none counts as the empty role
DeclaredRole == IF TheIntent.entity_role = None THEN "" ELSE TheIntent.entity_role.s

RoleIndexed == DeclaredRole \in DOMAIN call.entity_index

\* the intent declares a type, the index records one, and they differ
TypeDisagrees ==
    /\ RoleIndexed
    /\ TheIntent.entity_type # None
    /\ "entity_type" \in DOMAIN call.entity_index[DeclaredRole]
    /\ call.entity_index[DeclaredRole].entity_type # ""
    /\ call.entity_index[DeclaredRole].entity_type # TheIntent.entity_type.s

\* some manifest has an identity change whose new value carries the role
RoleSpawned ==
    \E m \in 1..Len(manifests) : \E c \in 1..Len(manifests[m].component_changes) :
       /\ manifests[m].component_changes[c].component_type_name = "identity"
       /\ FieldOf(manifests[m].component_changes[c].new_value, "role") = Str(DeclaredRole)

\* C20: an Entity intent passes if and only if (a) its role is a key of the
\* entity index and, when entity_type is declared, the declared type does
\* not disagree with the indexed type, or (b) its role is not in the index
\* and some manifest has an identity change whose new_value.role equals the
\* role; a role in the index with a disagreeing type fails with a
\* type-mismatch reason without falling back to the manifest scan, and
\* every other failure has the reason "No entity found with role ...".
\* must_exist, must_be_visible and required_components never change the
\* outcome.
C20_EntityIntentOutcome ==
    pc = "verified"
    => /\ TheResult.passed
            <=> (RoleIndexed /\ ~TypeDisagrees) \/ (~RoleIndexed /\ RoleSpawned)
       /\ TypeDisagrees
            => /\ ~TheResult.passed
               /\ Contains("does not match expected", TheResult.failure_reason)
       /\ (~TheResult.passed /\ ~TypeDisagrees)
            => TheResult.failure_reason
                 = "No entity found with role '" \o DeclaredRole \o "'"

\* an intent with every flag off and a required component failed on a type
\* mismatch although a manifest spawned its role
C20_Witness ==
    /\ pc = "verified"
    /\ TypeDisagrees
    /\ RoleSpawned
    /\ ~TheIntent.must_exist
    /\ ~TheIntent.must_be_visible
    /\ TheIntent.required_components # <<>>
    /\ ~TheResult.passed

(***************************************************************************)
(* SpecMatch: _matches_entity applied to the changes of a manifest.        *)
(***************************************************************************)
MatchShapes == {"quiet", "bounce", "spawn", "brick_moved", "mayhem", "struck"}

MatchNames ==
    {"1", "2", "100", "-1", "+1", "001", "1a", "", "ball", "Ball", "BRICK", "paddle",
     "spawn", ":", "all"}

TickM == Emit(MatchShapes, CheckTicks)

\* VerificationEngine._matches_entity(change, entity_name) on a change of the
\* latest manifest
DoMatchEntity(entity_name) ==
    /\ pc = "sim"
    /\ Len(manifests) > 0
    /\ \E c \in 1..Len(manifests[Len(manifests)].component_changes) :
          /\ call' = [suite |-> None, entity_name |-> entity_name,
                      change |-> manifests[Len(manifests)].component_changes[c]]
          /\ report' = [matched |->
                           matches_entity(manifests[Len(manifests)].component_changes[c],
                                          entity_name)]
    /\ pc' = "matched"
    /\ UNCHANGED <<manifests, regression, replayed, wire>>

MatchEntity == \E entity_name \in MatchNames : DoMatchEntity(entity_name)

NextM == TickM \/ MatchEntity

SpecMatch == Init /\ [][NextM]_vars

(***************************************************************************)
(* Properties of _matches_entity (SpecMatch).                              *)
(***************************************************************************)
\* sub occurs in s when the case of letters is ignored
OccursIgnoringCase(sub, s) ==
    \E i \in 1..(Len(s) - Len(sub) + 1) :
       \A k \in 1..Len(sub) : LowerChar(Char(s, i + k - 1)) = LowerChar(Char(sub, k))

HasColon(s) == \E i \in 1..Len(s) : Char(s, i) = ":"

\* C21: matches_entity(change, name) follows four branches in order: (1) if
\* name parses as an integer, the result is exactly change.entity_id = that
\* integer; (2) otherwise, if name occurs case-insensitively as a substring
\* of change.reason_detail, true; (3) otherwise, if reason_detail contains a
\* colon, false; (4) otherwise true.
C21_MatchesEntityBranches ==
    pc = "matched"
    => report.matched
         = IF IsNumeral(call.entity_name)
           THEN call.change.entity_id = NumeralVal(call.entity_name)
           ELSE IF OccursIgnoringCase(call.entity_name, call.change.reason_detail) THEN TRUE
           ELSE IF HasColon(call.change.reason_detail) THEN FALSE
           ELSE TRUE

\* a name that is no number and does not occur in a reason_detail without
\* a colon matched the change
C21_Witness ==
    /\ pc = "matched"
    /\ ~IsNumeral(call.entity_name)
    /\ ~OccursIgnoringCase(call.entity_name, call.change.reason_detail)
    /\ ~HasColon(call.change.reason_detail)
    /\ report.matched

(***************************************************************************)
(* SpecFixes: verify() on intents that fail in every way the evaluators    *)
(* know, followed by report.suggested_fixes().                             *)
(***************************************************************************)
FixShapes == {"quiet", "hit", "bounce", "mayhem"}

FixIntents ==
    {EntityIntent("entity", Str("paddle"), Str("character")),
     BehaviorIntent("bounces", collision("ball", "brick"), BounceExpected, DefaultTimeout),
     BehaviorIntent("no_window", collision("ball", "brick"), BounceExpected, 0),
     BehaviorIntent("delayed", after(collision("ball", "brick"), 1), BounceExpected,
                    DefaultTimeout),
     BehaviorIntent("nested", after(after(collision("ball", "brick"), 0), 0),
                    BounceExpected, DefaultTimeout),
     BehaviorIntent("untriggered", None, BounceExpected, DefaultTimeout),
     MetricIntent("slow", "ball", "velocity", "dx", Range(-10, 4)),
     MetricIntent("unbounded", "ball", "velocity", "dx", None),
     InvariantIntent("slow_always", RangeCondition(0, 4)),
     InvariantIntent("many_bricks", "aggregate:brick > 5"),
     InvariantIntent("few_entities", "entity_count < 2"),
     InvariantIntent("malformed", "aggregate:brick >")}

FixSuites ==
    {VerificationSuite("suite", <<intent>>) : intent \in FixIntents}
    \cup {VerificationSuite("suite",
                            <<MetricIntent("slow", "ball", "velocity", "dx", Range(-10, 4)),
                              EntityIntent("entity", Str("paddle"), Str("character")),
                              InvariantIntent("many_bricks", "aggregate:brick > 5")>>)}

FixIndexes == {NoEntityIndex, [paddle |-> [entity_type |-> "prop"]]}

FixRegistries ==
    {None,
     Dict((1 :> PhysicsEntityInfo(1, "dynamic", 80, "circle"))
          @@ (100 :> PhysicsEntityInfo(100, "static", 0, "box")))}

TickF == Emit(FixShapes, MainTicks)

VerifyF ==
    \E suite \in FixSuites, entity_index \in FixIndexes, physics_registry \in FixRegistries :
       DoVerifyWith(suite, entity_index, physics_registry)

\* report.suggested_fixes()
SuggestFixes ==
    /\ pc = "verified"
    /\ report' = [of |-> report, fixes |-> suggested_fixes(report)]
    /\ pc' = "suggested"
    /\ UNCHANGED <<manifests, call, regression, replayed, wire>>

NextF == TickF \/ VerifyF \/ SuggestFixes

SpecFixes == Init /\ [][NextF]_vars

(***************************************************************************)
(* Properties of suggested_fixes (SpecFixes).                              *)
(***************************************************************************)
\* the kind of failure a result reports, told by the fixed phrase its
\* evaluator opens the reason with
FailureClass(result) ==
    IF StartsWith(result.failure_reason, "No entity found with role '")
    THEN "entity_not_found"
    ELSE IF \/ StartsWith(result.failure_reason, "Trigger '")
               /\ Contains("' never fired across ", result.failure_reason)
            \/ result.failure_reason = "After trigger failed: child trigger never fired"
    THEN "trigger_never_fired"
    ELSE IF StartsWith(result.failure_reason, "Expected outcome '")
            /\ Contains("' not met within ", result.failure_reason)
    THEN "timeout"
    ELSE IF \/ StartsWith(result.failure_reason, "Metric '")
            \/ StartsWith(result.failure_reason, "Entity '")
    THEN "wrong_value"
    ELSE "unknown"

\* C22: suggested_fixes() returns exactly one SuggestedFix per failed
\* result, in result order, and classifies every failure the evaluators
\* can produce by its fixed phrase: entity-not-found failures as
\* entity_not_found, trigger-never-fired failures (an After whose child
\* never fired included) as trigger_never_fired, expected-not-met failures
\* as timeout, metric and component-range out-of-range failures as
\* wrong_value, and every other failure as unknown; priority is high
\* exactly for entity_not_found.
C22_OneFixPerFailure ==
    pc = "suggested"
    => /\ Len(report.fixes) = report.of.failed
       /\ \A k \in 1..Len(report.fixes) :
             LET r == report.of.results[FailedIndex(report.of.results, k)]
             IN /\ report.fixes[k].intent_name = r.intent_name
                /\ report.fixes[k].fix_type = FailureClass(r)
                /\ report.fixes[k].priority = "high"
                      <=> FailureClass(r) = "entity_not_found"
                /\ report.fixes[k].priority \in {"high", "medium"}

\* the fix types that were suggested
SuggestedTypes == {report.fixes[k].fix_type : k \in 1..Len(report.fixes)}

\* fixes were suggested for a report with several failures, an
\* out-of-range and an entity-not-found failure among them
C22_Witness ==
    /\ pc = "suggested"
    /\ Len(report.fixes) > 3
    /\ {"wrong_value", "entity_not_found", "unknown"} \subseteq SuggestedTypes

(***************************************************************************)
(* SpecLoad: from_dict on stored dicts that were not written by to_dict:   *)
(* type and kind strings outside the enums, at the root and below it.      *)
(***************************************************************************)
\* a stored node; raw_type None stands for a dict without a "type" key
RawNode(raw_type, children) ==
    IF raw_type = None
    THEN Dict([params |-> Dict(NoParams), children |-> List(children)])
    ELSE Dict([type |-> raw_type, params |-> Dict(NoParams), children |-> List(children)])

RawLeaves(known) == {RawNode(t, <<>>) : t \in {Str(known), Str("explode"), None}}

RawChildren(known) == UNION {[1..k -> RawLeaves(known)] : k \in 1..2}

RawNodes(known, composite) ==
    RawLeaves(known)
    \cup {RawNode(t, <<>>) : t \in {Str(""), Str("Collision"), Num(5)}}
    \cup {RawNode(Str(t), children) :
            t \in {composite, "xor"}, children \in RawChildren(known)}
    \cup {RawNode(Str(composite), <<RawNode(Str(composite), <<leaf>>)>>) :
            leaf \in RawLeaves(known)}

RawTriggers == RawNodes("tick_reached", "and")

RawExpecteds == RawNodes("entity_despawned", "all")

\* a stored intent; raw_kind None stands for a dict without a "kind" key
RawIntent(raw_kind, trigger, expected) ==
    IF raw_kind = None
    THEN Dict([name |-> Str("intent"), description |-> Str("d"), trigger |-> trigger,
               expected |-> expected])
    ELSE Dict([name |-> Str("intent"), kind |-> raw_kind, description |-> Str("d"),
               trigger |-> trigger, expected |-> expected])

RawIntents ==
    {RawIntent(kind, trigger, expected) :
        kind \in {Str("behavior"), Str("wish")},
        trigger \in {RawNode(Str("tick_reached"), <<>>), RawNode(Str("explode"), <<>>),
                     RawNode(Str("and"), <<RawNode(Str("explode"), <<>>)>>)},
        expected \in {RawNode(Str("entity_despawned"), <<>>), RawNode(Str("vanish"), <<>>),
                      RawNode(Str("all"), <<RawNode(Str("vanish"), <<>>)>>)}}
    \cup {Dict([name |-> Str("intent"), kind |-> kind, description |-> Str("d")]) :
            kind \in {Str("entity"), Str("metric"), Str("invariant"), Str("Entity"),
                      Str(""), Num(1)}}
    \cup {RawIntent(None, None, None)}

RawSuites ==
    {Dict([name |-> Str("suite"), description |-> Str("d"), intents |-> List(intents)]) :
        intents \in UNION {[1..k -> {RawIntent(Str("behavior"),
                                               RawNode(Str("tick_reached"), <<>>),
                                               RawNode(Str("entity_despawned"), <<>>)),
                                     RawIntent(Str("behavior"),
                                               RawNode(Str("and"),
                                                       <<RawNode(Str("explode"), <<>>)>>),
                                               RawNode(Str("entity_despawned"), <<>>)),
                                     RawIntent(Str("wish"), None, None),
                                     Dict([name |-> Str("intent"), kind |-> Str("entity"),
                                           description |-> Str("d")])}] : k \in 0..2}}

\* cls.from_dict(data) on a stored dict
Load(type, data) ==
    /\ pc = "sim"
    /\ wire' = [type |-> type, value |-> None, data |-> data,
                back |-> from_dict(type, data)]
    /\ pc' = "loaded"
    /\ UNCHANGED <<manifests, call, report, regression, replayed>>

LoadTrigger == \E data \in RawTriggers : Load("Trigger", data)

LoadExpected == \E data \in RawExpecteds : Load("Expected", data)

LoadIntentSpec == \E data \in RawIntents : Load("IntentSpec", data)

LoadSuite == \E data \in RawSuites : Load("VerificationSuite", data)

NextLoad == LoadTrigger \/ LoadExpected \/ LoadIntentSpec \/ LoadSuite

SpecLoad == Init /\ [][NextLoad]_vars

(***************************************************************************)
(* Properties of loading (SpecLoad).                                       *)
(***************************************************************************)
\* the type string of a stored node is not one of types, or that of a node
\* among its children is not
RECURSIVE UnknownNode(_, _)
UnknownNode(data, types) ==
    \/ "type" \notin DOMAIN data.d
    \/ ~IsStr(data.d.type)
    \/ data.d.type.s \notin types
    \/ \E i \in 1..Len(data.d.children.xs) : UnknownNode(data.d.children.xs[i], types)

\* the kind of a stored intent is unknown, or it is a behavior whose
\* trigger or expected outcome holds an unknown node
UnknownIntent(data) ==
    \/ "kind" \notin DOMAIN data.d
    \/ ~IsStr(data.d.kind)
    \/ data.d.kind.s \notin IntentKinds
    \/ /\ data.d.kind.s = "behavior"
       /\ \/ IsDict(data.d.trigger) /\ UnknownNode(data.d.trigger, TriggerTypes)
          \/ IsDict(data.d.expected) /\ UnknownNode(data.d.expected, ExpectedTypes)

\* the stored value that was loaded holds an unknown variant somewhere
UnknownVariant ==
    CASE wire.type = "Trigger" -> UnknownNode(wire.data, TriggerTypes)
      [] wire.type = "Expected" -> UnknownNode(wire.data, ExpectedTypes)
      [] wire.type = "IntentSpec" -> UnknownIntent(wire.data)
      [] wire.type = "VerificationSuite" ->
            \E i \in 1..Len(wire.data.d.intents.xs) :
               UnknownIntent(wire.data.d.intents.xs[i])

\* C23: loading a trigger, an expected outcome or an intent whose type or
\* kind string is not a known variant raises a parsing error instead of
\* dropping or defaulting the node, also when the unknown node is nested
\* inside a composite's children or inside a suite: the whole load fails
\* and no partial value is returned.
C23_UnknownVariantRaises ==
    pc = "loaded"
    => /\ UnknownVariant => wire.back \in {Raise("ValueError"), Raise("KeyError")}
       /\ ~UnknownVariant => ~IsRaised(wire.back)

\* a suite whose second intent holds an unknown trigger below a composite
\* failed to load
C23_Witness ==
    /\ pc = "loaded"
    /\ wire.type = "VerificationSuite"
    /\ Len(wire.data.d.intents.xs) = 2
    /\ ~UnknownIntent(wire.data.d.intents.xs[1])
    /\ wire.data.d.intents.xs[2].d.kind = Str("behavior")
    /\ UnknownNode(wire.data.d.intents.xs[2].d.trigger, TriggerTypes)
    /\ IsRaised(wire.back)

(***************************************************************************)
(* Properties of the expected-outcome window (SpecBehavior).               *)
(***************************************************************************)
\* the evaluator resolved the trigger of the intent to an index: a directly
\* evaluated trigger fired, or the child of an After fired and the child's
\* index plus the delay is below len(manifests)
TriggerResolved ==
    /\ pc \in {"verified", "raised"}
    /\ TheIntent.kind = "behavior"
    /\ FiringIndices(IF TheIntent.trigger.type = "after"
                     THEN TheIntent.trigger.children[1] ELSE TheIntent.trigger,
                     manifests) # {}
    /\ TriggerIndex(TheIntent.trigger, manifests) < Len(manifests)

\* the manifest indices j with i <= j < min(i + timeout_ticks, len(manifests))
\* at which the expected outcome holds
HoldsInWindow ==
    LET i == TriggerIndex(TheIntent.trigger, manifests)
    IN {j \in 0..(Len(manifests) - 1) :
          /\ i <= j
          /\ j < PyMin(i + TheIntent.timeout_ticks, Len(manifests))
          /\ check_expected(TheIntent.expected, manifests[j + 1])}

\* C24: once the trigger index i is resolved, a Behavior intent passes if
\* and only if the expected outcome holds at some manifest index j with
\* i <= j < min(i + timeout_ticks, len(manifests)); if it holds at no index
\* of that window the result is failed with a reason containing 'not met'
\* and trigger_tick still equal to manifests[i].tick.
C24_PassesIffHeldInWindow ==
    TriggerResolved
    => /\ ~IsRaised(report)
       /\ TheResult.passed <=> HoldsInWindow # {}
       /\ HoldsInWindow = {}
            => /\ ~TheResult.passed
               /\ Contains("not met", TheResult.failure_reason)
               /\ TriggerIndex(TheIntent.trigger, manifests) >= 0
               /\ TheResult.trigger_tick
                    = Num(TickAt(manifests, TriggerIndex(TheIntent.trigger, manifests)))

(***************************************************************************)
(* Properties of the trigger scan (SpecBehavior).                          *)
(***************************************************************************)
\* a verified Behavior intent whose trigger is evaluated directly (not an
\* After) and holds on some manifest
DirectTriggerFired ==
    /\ BehaviorVerified
    /\ TheIntent.trigger.type # "after"
    /\ \E i \in 1..Len(manifests) : check_trigger(TheIntent.trigger, manifests[i])

\* the smallest manifest index (from 0) on which the trigger holds
FirstMatch ==
    CHOOSE i \in 0..(Len(manifests) - 1) :
       /\ check_trigger(TheIntent.trigger, manifests[i + 1])
       /\ \A h \in 0..(i - 1) : ~check_trigger(TheIntent.trigger, manifests[h + 1])

\* the expected outcome holds at index j
ExpectedAt(j) == check_expected(TheIntent.expected, manifests[j + 1])

\* C25: the trigger index of a non-After Behavior intent is the smallest
\* manifest index at which the trigger holds; the trigger never re-arms, so
\* a later firing opens no window of its own, and an expected outcome that
\* holds only before the trigger index never counts: the intent passes
\* exactly when the expected outcome holds inside the window that opens at
\* the first match.
C25_FirstMatchOnly ==
    DirectTriggerFired
    => /\ TheResult.trigger_tick = Num(TickAt(manifests, FirstMatch))
       /\ TheResult.passed
            <=> \E j \in FirstMatch..(Len(manifests) - 1) :
                   j < FirstMatch + TheIntent.timeout_ticks /\ ExpectedAt(j)

\* C25 witness: the trigger holds again after its first match, the expected
\* outcome holds before the first match and inside the window a second
\* firing would open, but not inside the first window, and the intent failed
C25_Witness ==
    /\ DirectTriggerFired
    /\ \E i \in (FirstMatch + 1)..(Len(manifests) - 1) :
          /\ check_trigger(TheIntent.trigger, manifests[i + 1])
          /\ \E j \in i..(Len(manifests) - 1) :
                j < i + TheIntent.timeout_ticks /\ ExpectedAt(j)
    /\ \E j \in 0..(FirstMatch - 1) : ExpectedAt(j)
    /\ ~TheResult.passed
    /\ TheResult.trigger_tick = Num(TickAt(manifests, FirstMatch))

(***************************************************************************)
(* SpecComposite: Behavior intents whose trigger nests an After below the  *)
(* root or is an empty composite, and whose expected outcome may be an     *)
(* empty composite.                                                        *)
(***************************************************************************)
LeafTriggers == {collision("ball", "brick"), tick_reached(FirstTick + 1)}

NestedAfterTriggers ==
    {and_(<<after(c, k), x>>) : c \in LeafTriggers, x \in LeafTriggers, k \in Delays}
    \cup {or_(<<after(c, k), x>>) : c \in LeafTriggers, x \in LeafTriggers, k \in Delays}
    \cup {after(after(c, a), b) : c \in LeafTriggers, a \in Delays, b \in Delays}

EmptyTriggers == {and_(<<>>), or_(<<>>)}

CompositeExpecteds == {event_emitted("collision", None), all_(<<>>), any_(<<>>)}

CompositeTimeouts == {1, DefaultTimeout}

CompositeIntents ==
    {BehaviorIntent("behavior", trigger, expected, timeout) :
        trigger \in NestedAfterTriggers \cup EmptyTriggers \cup LeafTriggers,
        expected \in CompositeExpecteds, timeout \in CompositeTimeouts}

CompositeSuites == {VerificationSuite("suite", <<intent>>) : intent \in CompositeIntents}

TickK == Emit(BehaviorShapes, MaxTicks)

VerifyK == \E suite \in CompositeSuites : DoVerify(suite, NoEntityIndex)

NextK == TickK \/ VerifyK

SpecComposite == Init /\ [][NextK]_vars

(***************************************************************************)
(* Properties of nested After triggers (SpecComposite).                    *)
(***************************************************************************)
CompositeVerified == pc \in {"verified", "raised"} /\ TheIntent.kind = "behavior"

\* the trigger is a composite of the given type whose first child is an After
AfterBelow(trigger, type) ==
    /\ trigger.type = type
    /\ Len(trigger.children) > 0
    /\ trigger.children[1].type = "after"

\* the trigger holds on no manifest of the run
NeverHolds(trigger) == \A i \in 1..Len(manifests) : ~check_trigger(trigger, manifests[i])

\* the result is a failure whose reason contains the phrase
FailedWith(phrase) ==
    /\ ~IsRaised(report)
    /\ ~TheResult.passed
    /\ Contains(phrase, TheResult.failure_reason)

\* C26: the single-manifest trigger evaluator returns false for After on
\* every manifest, so an After nested below the root never fires:
\* And([After(c, k), x]) never fires, Or([After(c, k), x]) fires exactly
\* when x fires, and After(After(c, a), b) always fails with the
\* child-never-fired reason, whatever the manifests contain.
C26_NestedAfterNeverFires ==
    CompositeVerified =>
       LET trigger == TheIntent.trigger
       IN /\ trigger.type = "after" => NeverHolds(trigger)
          /\ AfterBelow(trigger, "and") =>
                /\ NeverHolds(trigger.children[1])
                /\ NeverHolds(trigger)
                /\ FailedWith("never fired")
          /\ AfterBelow(trigger, "or") =>
                /\ NeverHolds(trigger.children[1])
                /\ \A i \in 1..Len(manifests) :
                      check_trigger(trigger, manifests[i])
                         <=> check_trigger(trigger.children[2], manifests[i])
                /\ NeverHolds(trigger.children[2]) => FailedWith("never fired")
                /\ ~NeverHolds(trigger.children[2]) =>
                      /\ ~IsRaised(report)
                      /\ TheResult.trigger_tick
                           = Num(TickAt(manifests,
                                        Min(FiringIndices(trigger.children[2], manifests))))
          /\ AfterBelow(trigger, "after") =>
                /\ NeverHolds(trigger.children[1])
                /\ FailedWith("child trigger never fired")

\* C26 witness: Or([After(c, k), x]) verified on manifests where c fires and
\* c's index plus k is an index of the run strictly before x first fires;
\* the intent's trigger tick is that of x
C26_Witness ==
    /\ CompositeVerified
    /\ AfterBelow(TheIntent.trigger, "or")
    /\ LET inner == TheIntent.trigger.children[1]
           x == TheIntent.trigger.children[2]
       IN /\ FiringIndices(x, manifests) # {}
          /\ \E i \in FiringIndices(inner.children[1], manifests) :
                /\ i + inner.params.delay_ticks.n >= 0
                /\ i + inner.params.delay_ticks.n < Min(FiringIndices(x, manifests))
          /\ TheResult.trigger_tick
               = Num(TickAt(manifests, Min(FiringIndices(x, manifests))))

(***************************************************************************)
(* Properties of empty composites (SpecComposite).                         *)
(***************************************************************************)
\* the expected outcome holds on no manifest of the run
ExpectedNeverHolds ==
    \A i \in 1..Len(manifests) : ~check_expected(TheIntent.expected, manifests[i])

\* the trigger of the intent is evaluated directly and holds on some manifest
TriggerHoldsSomewhere ==
    /\ TheIntent.trigger.type # "after"
    /\ ~NeverHolds(TheIntent.trigger)

\* C30 (as amended): And([]) fires on every manifest, so a Behavior intent
\* with that trigger has trigger index 0 whenever the manifest list is not
\* empty; All([]) holds on every manifest; Or([]) never fires, so an intent
\* with that trigger always fails with 'never fired'; Any([]) never holds,
\* so an intent with that expected outcome always fails: with 'not met'
\* when its trigger fires on some manifest, and with the failure reason of
\* the trigger scan ('never fired') when it fires on none.
C30_EmptyComposites ==
    CompositeVerified =>
       /\ TheIntent.trigger = and_(<<>>) =>
             /\ \A i \in 1..Len(manifests) : check_trigger(TheIntent.trigger, manifests[i])
             /\ Len(manifests) > 0 =>
                   /\ ~IsRaised(report)
                   /\ TheResult.trigger_tick = Num(TickAt(manifests, 0))
       /\ TheIntent.expected = all_(<<>>) =>
             \A i \in 1..Len(manifests) : check_expected(TheIntent.expected, manifests[i])
       /\ TheIntent.trigger = or_(<<>>) =>
             /\ NeverHolds(TheIntent.trigger)
             /\ FailedWith("never fired")
       /\ TheIntent.expected = any_(<<>>) =>
             /\ ExpectedNeverHolds
             /\ IF TriggerHoldsSomewhere
                THEN FailedWith("not met")
                ELSE FailedWith("never fired") /\ ~Contains("not met", TheResult.failure_reason)

\* C30 witness: an intent with expected outcome Any([]) whose trigger fires
\* on none of the manifests emitted, failed without 'not met'
C30_Witness ==
    /\ CompositeVerified
    /\ TheIntent.expected = any_(<<>>)
    /\ TheIntent.trigger \in LeafTriggers
    /\ Len(manifests) > 0
    /\ ~TriggerHoldsSomewhere
    /\ FailedWith("never fired")

\* C30 as stated: an intent with trigger Or([]) always fails with 'never
\* fired' and an intent with expected outcome Any([]) always fails with
\* 'not met'
C30_AsStated ==
    CompositeVerified =>
       /\ TheIntent.trigger = or_(<<>>) => FailedWith("never fired")
       /\ TheIntent.expected = any_(<<>>) => FailedWith("not met")

(***************************************************************************)
(* SpecMetric: one Metric intent at a time over manifests whose velocity   *)
(* changes belong to several entities or carry no numeric dx.              *)
(***************************************************************************)
MetricShapes == {"quiet", "stall", "surge", "drift", "pair", "skipped"}

MetricRanges == {Range(0, 11), Range(0, 15), Range(-5, 30), None}

MetricIntents ==
    {MetricIntent("metric", entity, "velocity", "dx", range) :
        entity \in {"ball", "paddle"}, range \in MetricRanges}

MetricSuites == {VerificationSuite("suite", <<intent>>) : intent \in MetricIntents}

TickQ == Emit(MetricShapes, MaxTicks)

VerifyQ == \E suite \in MetricSuites : DoVerify(suite, NoEntityIndex)

NextQ == TickQ \/ VerifyQ

SpecMetric == Init /\ [][NextQ]_vars

(***************************************************************************)
(* Properties of the metric evaluator (SpecMetric).                        *)
(***************************************************************************)
MetricVerified == pc = "verified" /\ TheIntent.kind = "metric"

\* the k-th change of the i-th manifest (both from 1)
MetricChange(i, k) == manifests[i].component_changes[k]

\* the change writes the metric's component and carries the metric's field
\* as a number
NumericAt(i, k) ==
    /\ MetricChange(i, k).component_type_name = TheIntent.metric_component.s
    /\ MetricChange(i, k).new_value.kind = "dict"
    /\ TheIntent.metric_field.s \in DOMAIN MetricChange(i, k).new_value.d
    /\ MetricChange(i, k).new_value.d[TheIntent.metric_field.s].kind = "num"

\* the positions <<manifest, change>> of the changes, of any entity, whose
\* numeric field lies outside [min, max]
Violating ==
    {pos \in UNION {{<<i, k>> : k \in 1..Len(manifests[i].component_changes)} :
                       i \in 1..Len(manifests)} :
        /\ NumericAt(pos[1], pos[2])
        /\ LET n == MetricChange(pos[1], pos[2]).new_value.d[TheIntent.metric_field.s].n
           IN n < TheIntent.metric_range.lo \/ n > TheIntent.metric_range.hi}

\* pos comes before every other violating position, by manifest index and
\* then by the order of component_changes
Earliest(pos) ==
    /\ pos \in Violating
    /\ \A q \in Violating : pos[1] < q[1] \/ (pos[1] = q[1] /\ pos[2] <= q[2])

\* C27: a Metric intent inspects, in every manifest, every change whose
\* component equals metric_component, whatever entity it belongs to, and
\* skips changes whose field is missing or not a number; on failure it
\* reports the earliest violating change (by manifest index, then by
\* component_changes order) as trigger_tick and as its single evidence
\* item; with no violating change, the empty manifest list included, it
\* passes; with metric_range missing it fails.
C27_MetricScansEveryEntity ==
    MetricVerified =>
       IF TheIntent.metric_range = None
       THEN ~TheResult.passed
       ELSE /\ TheResult.passed <=> Violating = {}
            /\ ~TheResult.passed =>
                  \E pos \in Violating :
                     /\ Earliest(pos)
                     /\ TheResult.trigger_tick = Num(manifests[pos[1]].tick)
                     /\ TheResult.evidence = <<MetricChange(pos[1], pos[2])>>

\* C27 witness: the intent names the ball, the earliest violating change is
\* a write by another entity that follows skipped changes or comes before
\* a violating write of the ball, and it is the single evidence item
C27_Witness ==
    /\ MetricVerified
    /\ TheIntent.metric_entity = Str("ball")
    /\ TheIntent.metric_range # None
    /\ ~TheResult.passed
    /\ \E pos \in Violating :
          /\ Earliest(pos)
          /\ MetricChange(pos[1], pos[2]).entity_id # 1
          /\ \E q \in Violating : q # pos /\ MetricChange(q[1], q[2]).entity_id = 1
          /\ TheResult.evidence = <<MetricChange(pos[1], pos[2])>>
          /\ TheResult.trigger_tick = Num(manifests[pos[1]].tick)
    /\ \E i \in 1..Len(manifests) : \E k \in 1..Len(manifests[i].component_changes) :
          /\ MetricChange(i, k).component_type_name = "velocity"
          /\ ~NumericAt(i, k)

\* C28: for every After(child, k) trigger, k any integer, that resolves
\* successfully, the resolved index r satisfies
\* index(child) <= r <= len(manifests) - 1: the reported trigger_tick is
\* never earlier than the tick at which the child fired, and no manifest is
\* addressed through a negative index.
C28_AfterIndexNeverBeforeChild ==
    (AfterVerified /\ TriggerIndex(TheIntent.trigger, manifests) < Len(manifests))
    => LET child_idx == Min(FiringIndices(TheIntent.trigger.children[1], manifests))
           r == TriggerIndex(TheIntent.trigger, manifests)
       IN /\ child_idx <= r
          /\ r <= Len(manifests) - 1
          /\ ~IsRaised(report)
          /\ TheResult.trigger_tick.n >= TickAt(manifests, child_idx)

\* C29: a regression test created from the report of any
\* verify(suite, manifests, entity_index, physics_registry) call replays
\* against its own stored, unmodified manifests with passed = true, whatever
\* optional arguments the original run used.
C29_ReplayOfStoredManifestsPasses ==
    (pc = "replayed" /\ replayed.override = None /\ regression.manifests = manifests)
    => replayed.result.passed

====
